------------------------------- MODULE MCHttp -------------------------------
(***************************************************************************)
(* One run for the HTTP layer: either two sessions talk (HttpSession), or  *)
(* the parser alone reads a stream or a URL (HttpStream).                  *)
(***************************************************************************)
EXTENDS MCHttpSession

CONSTANTS
  StreamHeaderSize,  \* HTTP_MAX_HEADER_SIZE of the parser alone
  MaxPiece

VARIABLES part, stream, at, alone, log, ended, link
all == <<vars, part, stream, at, alone, log, ended, link>>

Samples == INSTANCE MCHttpSamples
Stream == INSTANCE HttpStream
            WITH HTTP_MAX_HEADER_SIZE <- StreamHeaderSize, Streams <- Samples!AllStreams,
                 Urls <- Samples!AllUrls, parser <- alone

Sessions == part = "sessions"

OneStream == stream = CHOOSE s \in Samples!AllStreams : TRUE
OneTalk == talk = Example

BothInit ==
  /\ part \in {"sessions", "parser"}
  /\ Init /\ Stream!Init
  /\ IF Sessions THEN OneStream ELSE OneTalk

BothNext ==
  \/ Sessions /\ Next /\ UNCHANGED <<part, stream, at, alone, log, ended, link>>
  \/ ~Sessions /\ Stream!Next /\ UNCHANGED <<part, vars>>

BothSpec ==
  BothInit /\ [][BothNext]_all /\ \A side \in Sides : Sessions => ReadFairly(side)

\* The properties of HttpStream: the callbacks are those of the stream, its end and
\* its errors are judged rightly, the assertions of http_parser.c hold, and URLs are
\* split where they should be.
Decoded == Stream!Decoded
Judged == Stream!Judged
AssertionsHold == Stream!AssertionsHold
UrlSplit == Stream!UrlSplit
=============================================================================
