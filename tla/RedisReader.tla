----------------------------- MODULE RedisReader -----------------------------
(***************************************************************************)
(* The reply parser of hiredis (src/src/redis/hiredis/read.c) with the     *)
(* reply objects of hiredis.c.  A reader is a record; redisReaderFeed and  *)
(* redisReaderGetReply take a reader to a reader.  What is read so far of  *)
(* a nested reply is kept on a stack of tasks, so that the bytes may       *)
(* arrive in any pieces.  Allocation never fails here, and values keep to  *)
(* TLC's integers: the overflow of readLongLong is out of the inputs.      *)
(***************************************************************************)
EXTENDS Integers, Sequences, FiniteSetsExt

CONSTANT
  DISCARD    \* redisReaderGetReply drops what was consumed from here on: 1024

CRLF == "\r\n"
Char(s, i) == IF i <= Len(s) THEN SubSeq(s, i, i) ELSE ""
From(s, i) == SubSeq(s, i, Len(s))
Digits == "0123456789"
DigitOf(c) == (CHOOSE i \in 1..10 : Char(Digits, i) = c) - 1
IsDigit(c) == \E i \in 1..10 : Char(Digits, i) = c
Least(set) == Min(set)

-----------------------------------------------------------------------------
(* Reply objects; a child that is not there yet is NULL.                   *)

NULL == [type |-> "NULL"]
NilObject == [type |-> "NIL"]
StringObject(type, str) == [type |-> type, str |-> str]
IntegerObject(value) == [type |-> "INTEGER", integer |-> value]
ArrayObject(elements) ==
  [type |-> "ARRAY", elements |-> elements, element |-> [i \in 1..elements |-> NULL]]

-----------------------------------------------------------------------------
(* The reader: ridx + 1 is the length of rstack; a task has the type of    *)
(* the item it reads, the elements of an array and the place of the item   *)
(* among the elements of the task below.                                   *)

Task(idx) == [type |-> "none", elements |-> -1, idx |-> idx]

redisReaderCreate == [buf |-> "", pos |-> 0, rstack |-> <<>>, reply |-> NULL, err |-> "none"]

SetError(r, type) ==
  [buf |-> "", pos |-> 0, rstack |-> <<>>, reply |-> NULL, err |-> type]

Current(r) == r.rstack[Len(r.rstack)]
Unread(r) == From(r.buf, r.pos + 1)
Took(r, bytes) == [r EXCEPT !.pos = @ + bytes]

Ok(r) == [reader |-> r, ok |-> TRUE]
NotOk(r) == [reader |-> r, ok |-> FALSE]

\* The length of the line before the first newline, or -1.
seekNewline(s) ==
  LET ends == {i \in 1..(Len(s) - 1) : SubSeq(s, i, i + 1) = CRLF}
  IN IF ends = {} THEN -1 ELSE Least(ends) - 1

\* The number before the first carriage return; -1 for unexpected input.
readLongLong(s) ==
  LET signed == Char(s, 1) \in {"-", "+"}
      first == IF signed THEN 2 ELSE 1
      last == Least({i \in first..Len(s) : Char(s, i) = "\r"}) - 1
      value[i \in (first - 1)..last] ==
        IF i = first - 1 THEN 0 ELSE 10 * value[i - 1] + DigitOf(Char(s, i))
  IN IF \A i \in first..last : IsDigit(Char(s, i))
     THEN (IF Char(s, 1) = "-" THEN -1 ELSE 1) * value[last]
     ELSE -1

\* The task's object goes into its parent's elements, or is the root.
RECURSIVE Placed(_, _, _)
Placed(tree, path, obj) ==
  IF path = <<>> THEN obj
  ELSE [tree EXCEPT !.element[Head(path)] = Placed(@, Tail(path), obj)]

Create(r, obj) ==
  [r EXCEPT !.reply = Placed(@, [i \in 1..(Len(r.rstack) - 1) |-> r.rstack[i + 1].idx + 1], obj)]

\* Leaves every array whose last element this was.
moveToNextTask(r) ==
  LET open == {i \in 2..Len(r.rstack) : r.rstack[i].idx # r.rstack[i - 1].elements - 1}
  IN IF open = {} THEN [r EXCEPT !.rstack = <<>>]
     ELSE [r EXCEPT !.rstack = Append(SubSeq(@, 1, Max(open) - 1), Task(@[Max(open)].idx + 1))]

-----------------------------------------------------------------------------

processLineItem(r) ==
  LET len == seekNewline(Unread(r))
      type == Current(r).type
      obj == IF type = "INTEGER" THEN IntegerObject(readLongLong(Unread(r)))
             ELSE StringObject(type, SubSeq(Unread(r), 1, len))
  IN IF len = -1 THEN NotOk(r) ELSE Ok(moveToNextTask(Create(Took(r, len + 2), obj)))

processBulkItem(r) ==
  LET line == seekNewline(Unread(r))
      len == readLongLong(Unread(r))
      bytelen == line + 2 + len + 2
      Done(bytes, obj) == Ok(moveToNextTask(Create(Took(r, bytes), obj)))
  IN IF line = -1 THEN NotOk(r)
     ELSE IF len < 0 THEN Done(line + 2, NilObject)
     ELSE IF r.pos + bytelen > Len(r.buf) THEN NotOk(r)
     ELSE Done(bytelen, StringObject("STRING", SubSeq(Unread(r), line + 3, line + 2 + len)))

processMultiBulkItem(r) ==
  LET line == seekNewline(Unread(r))
      elements == readLongLong(Unread(r))
      after == Create(Took(r, line + 2),
                      IF elements = -1 THEN NilObject ELSE ArrayObject(elements))
  IN IF Len(r.rstack) = 9 THEN NotOk(SetError(r, "PROTOCOL"))
     ELSE IF line = -1 THEN NotOk(r)
     ELSE IF elements <= 0 THEN Ok(moveToNextTask(after))
     ELSE Ok([after EXCEPT !.rstack = Append([@ EXCEPT ![Len(r.rstack)].elements = elements], Task(0))])

TypeByte ==
  [b \in {"-", "+", ":", "$", "*"} |->
     CASE b = "-" -> "ERROR" [] b = "+" -> "STATUS" [] b = ":" -> "INTEGER"
       [] b = "$" -> "STRING" [] b = "*" -> "ARRAY"]

\* The type byte is consumed before the rest of the item is there.
processItem(r) ==
  LET new == Current(r).type = "none"
      byte == Char(Unread(r), 1)
      typed == IF new THEN [Took(r, 1) EXCEPT !.rstack[Len(r.rstack)].type = TypeByte[byte]] ELSE r
  IN IF new /\ Unread(r) = "" THEN NotOk(r)
     ELSE IF new /\ byte \notin DOMAIN TypeByte THEN NotOk(SetError(r, "PROTOCOL"))
     ELSE CASE Current(typed).type \in {"ERROR", "STATUS", "INTEGER"} -> processLineItem(typed)
            [] Current(typed).type = "STRING" -> processBulkItem(typed)
            [] Current(typed).type = "ARRAY" -> processMultiBulkItem(typed)

\* The reader after an item, and all that can be read after it.
RECURSIVE processItems(_)
processItems(item) ==
  IF item.ok /\ item.reader.rstack # <<>> THEN processItems(processItem(item.reader))
  ELSE item.reader

redisReaderFeed(r, bytes) == IF r.err # "none" THEN r ELSE [r EXCEPT !.buf = @ \o bytes]

FirstItem(r) == IF r.rstack = <<>> THEN [r EXCEPT !.rstack = <<Task(-1)>>] ELSE r
Discarded(r) ==
  IF r.pos >= DISCARD THEN [r EXCEPT !.buf = From(@, r.pos + 1), !.pos = 0] ELSE r
Emitted(r) ==
  IF r.err = "none" /\ r.rstack = <<>>
  THEN [reader |-> [r EXCEPT !.reply = NULL], reply |-> r.reply]
  ELSE [reader |-> r, reply |-> NULL]

\* The reader after the call, and the reply to hand over, if any.
redisReaderGetReply(r) ==
  IF r.err # "none" \/ r.buf = "" THEN [reader |-> r, reply |-> NULL]
  ELSE Emitted(Discarded(processItems(Ok(FirstItem(r)))))
=============================================================================
