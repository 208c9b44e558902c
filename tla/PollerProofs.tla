---------------------------- MODULE PollerProofs ----------------------------
(* Theorems about Poller, for any channels of the four kinds and any numbers.   *)
EXTENDS Poller, TLAPS

\* The map has a channel under the number it has, and no longer once it was removed, unless
\* the channel gave its number away before it was removed.
MapHolds ==
  \A f \in Fds : channels[f] # None =>
    \/ fd[channels[f]] = f /\ channels[f] \notin removed
    \/ fd[channels[f]] = Given /\ channels[f] \in hasty

\* An open number is of one channel, or in the hands of a callback.
OneOwner ==
  /\ \A c, d \in Channels : FdOpen(c) /\ FdOpen(d) /\ fd[c] = fd[d] => c = d
  /\ \A f \in given : Owner(f) = {}

\* Nobody closes a socket's descriptor but its destructor, and nobody gives it away.
SocketsOpen == closedFd \cap Sockets = {} /\ \A c \in Sockets : fd[c] # Given

\* As long as every channel was removed before its descriptor was closed or given away, the
\* map or waitRemove keep what the batch points to.
BatchKept ==
  hasty = {} =>
    /\ closedFd \subseteq removed /\ strays = {} /\ ~crashed
    /\ batch \ {"notify"} \subseteq InMap \cup waitRemove

\* The inductive invariant.
Sound == TypeOK /\ MapHolds /\ OneOwner /\ SocketsOpen /\ OwnRegistration /\ BatchKept

-----------------------------------------------------------------------------
LEMMA SoundInit == Init => Sound
  <1>. SUFFICES ASSUME Init
                PROVE  Sound
    OBVIOUS
  <1>1. TypeOK
    BY DEF Init, TypeOK, Pointers, None
  <1>2. MapHolds /\ SocketsOpen
    <2>1. None # Given
      BY DEF None, Given
    <2>. QED
      BY <2>1 DEF Init, MapHolds, SocketsOpen, Channels
  <1>3. OneOwner /\ OwnRegistration
    BY KindsAssumption DEF Init, OneOwner, OwnRegistration, FdOpen, None
  <1>4. BatchKept
    BY DEF Init, BatchKept
  <1>. QED
    BY <1>1, <1>2, <1>3, <1>4 DEF Sound

\* Who is in the map.
LEMMA MapMembers ==
  /\ \A f \in Fds : channels[f] # None => channels[f] \in InMap
  /\ \A c \in InMap : c # None /\ \E f \in Fds : channels[f] = c
  BY DEF InMap

\* A descriptor that is closed is not opened again: what a step leaves open was open.
LEMMA NoneReopens ==
  ASSUME fd' = fd, closedFd \subseteq closedFd',
         \A c \in Channels : Alive(c)' => Alive(c)
  PROVE  \A c \in Channels : FdOpen(c)' => FdOpen(c)
  BY DEF FdOpen

\* An open number that loses nobody but its owners is registered as before.
LEMMA RegistrationStays ==
  ASSUME Sound, NEW f \in Fds, f \notin strays, Owner(f)' \subseteq Owner(f),
         f \in given' => f \in given, channels'[f] = channels[f], interest'[f] = interest[f],
         Opened(f)', interest'[f] # None
  PROVE  Owner(f)' = {interest'[f]} /\ channels'[f] = interest'[f]
  <1>1. Opened(f)
    BY DEF Opened
  <1>2. Owner(f) = {interest[f]} /\ channels[f] = interest[f]
    BY <1>1 DEF Sound, OwnRegistration
  <1>3. Owner(f)' # {}
    BY <1>2 DEF Sound, OneOwner, Opened
  <1>. QED
    BY <1>2, <1>3

\* Steps that only let channels go: nothing is opened, registered or put into the map.
LEMMA RegistrationsStay ==
  ASSUME Sound, UNCHANGED <<channels, fd, interest, strays, hasty>>, given' \subseteq given,
         closedFd \subseteq closedFd', closedFd' \cap Sockets = {}, removed' = removed,
         \A c \in Channels : Alive(c)' => Alive(c)
  PROVE  (MapHolds /\ OneOwner /\ SocketsOpen /\ OwnRegistration)'
  <1>1. \A c \in Channels : FdOpen(c)' => FdOpen(c)
    BY NoneReopens
  <1>2. \A f \in Fds : Owner(f)' \subseteq Owner(f)
    BY <1>1 DEF Owner
  <1>3. MapHolds' /\ SocketsOpen'
    BY DEF Sound, MapHolds, SocketsOpen
  <1>4. OneOwner'
    BY <1>1, <1>2 DEF Sound, OneOwner, TypeOK
  <1>5. OwnRegistration'
    BY <1>2, RegistrationStays DEF OwnRegistration
  <1>. QED
    BY <1>3, <1>4, <1>5

-----------------------------------------------------------------------------
(* One lemma per action that opens, registers, removes, gives away or releases.  *)

LEMMA OpenKeeps ==
  ASSUME Sound, NEW c \in Channels, NEW f \in Fds, Open(c, f)
  PROVE  Sound'
  <1>. USE DEF Sound
  <1>1. /\ fd[c] = None /\ ~Opened(f) /\ fd' = [fd EXCEPT ![c] = f]
        /\ interest' = [interest EXCEPT ![f] = None] /\ strays' = strays \ {f}
        /\ user' = user \cup {c}
        /\ UNCHANGED <<channels, waitRemove, removed, closedFd, given, hasty, crashed, batch>>
    BY DEF Open
  <1>2. TypeOK'
    BY <1>1 DEF Open, TypeOK
  <1>3. \A d \in Channels \ {c} : fd'[d] = fd[d] /\ (FdOpen(d)' => FdOpen(d))
    BY <1>1 DEF TypeOK, FdOpen, Alive, InMap
  <1>4. fd'[c] = f /\ None \notin Fds /\ Given \notin Fds /\ None # Given
    BY <1>1, KindsAssumption DEF TypeOK, None, Given
  <1>5. MapHolds'
    <2>1. \A g \in Fds : channels[g] # None => channels[g] \in Channels /\ channels[g] # c
      BY <1>1, <1>4 DEF MapHolds, TypeOK
    <2>. QED
      BY <1>1, <1>3, <2>1 DEF MapHolds
  <1>6. \A g \in Fds \ {f} : Owner(g)' \subseteq Owner(g)
    BY <1>3, <1>4 DEF Owner
  <1>7. \A d \in Channels : FdOpen(d) => fd[d] # f
    BY <1>1 DEF Opened, Owner
  <1>8. OneOwner'
    <2>1. \A d, e \in Channels : FdOpen(d)' /\ FdOpen(e)' /\ fd'[d] = fd'[e] => d = e
      BY <1>3, <1>4, <1>7 DEF OneOwner
    <2>2. \A g \in given' : Owner(g)' = {}
      BY <1>1, <1>6 DEF OneOwner, Opened, TypeOK
    <2>. QED
      BY <2>1, <2>2 DEF OneOwner
  <1>9. SocketsOpen'
    BY <1>1, <1>3, <1>4 DEF SocketsOpen
  <1>10. OwnRegistration'
    <2>. SUFFICES ASSUME NEW g \in Fds \ strays', Opened(g)', interest'[g] # None
                  PROVE  Owner(g)' = {interest'[g]} /\ channels'[g] = interest'[g]
      BY DEF OwnRegistration
    <2>1. g # f /\ interest'[g] = interest[g]
      BY <1>1 DEF TypeOK
    <2>. QED
      BY <1>1, <1>6, <2>1, RegistrationStays
  <1>11. BatchKept'
    BY <1>1 DEF BatchKept, InMap
  <1>. QED
    BY <1>2, <1>5, <1>8, <1>9, <1>10, <1>11

\* The number comes with what is registered for it, which is nothing unless it is a stray.
LEMMA AdoptKeeps ==
  ASSUME Sound, NEW c \in Channels, NEW f \in Fds, Adopt(c, f)
  PROVE  Sound'
  <1>. USE DEF Sound
  <1>1. /\ fd[c] = None /\ f \in given /\ fd' = [fd EXCEPT ![c] = f]
        /\ given' = given \ {f} /\ user' = user \cup {c}
        /\ UNCHANGED <<channels, waitRemove, removed, closedFd, interest, strays, hasty, crashed, batch>>
    BY DEF Adopt
  <1>2. TypeOK'
    BY <1>1 DEF Adopt, TypeOK
  <1>3. \A d \in Channels \ {c} : fd'[d] = fd[d] /\ (FdOpen(d)' => FdOpen(d))
    BY <1>1 DEF TypeOK, FdOpen, Alive, InMap
  <1>4. fd'[c] = f /\ None \notin Fds /\ Given \notin Fds /\ None # Given
    BY <1>1, KindsAssumption DEF TypeOK, None, Given
  <1>5. MapHolds'
    <2>1. \A g \in Fds : channels[g] # None => channels[g] \in Channels /\ channels[g] # c
      BY <1>1, <1>4 DEF MapHolds, TypeOK
    <2>. QED
      BY <1>1, <1>3, <2>1 DEF MapHolds
  <1>6. \A g \in Fds \ {f} : Owner(g)' \subseteq Owner(g)
    BY <1>3, <1>4 DEF Owner
  <1>7. Owner(f) = {}
    BY <1>1 DEF OneOwner
  <1>8. OneOwner'
    <2>1. \A d, e \in Channels : FdOpen(d)' /\ FdOpen(e)' /\ fd'[d] = fd'[e] => d = e
      BY <1>3, <1>4, <1>7 DEF OneOwner, Owner
    <2>2. \A g \in given' : Owner(g)' = {}
      BY <1>1, <1>6 DEF OneOwner, TypeOK
    <2>. QED
      BY <2>1, <2>2 DEF OneOwner
  <1>9. SocketsOpen'
    BY <1>1, <1>3, <1>4 DEF SocketsOpen
  <1>10. OwnRegistration'
    <2>. SUFFICES ASSUME NEW g \in Fds \ strays', Opened(g)', interest'[g] # None
                  PROVE  Owner(g)' = {interest'[g]} /\ channels'[g] = interest'[g]
      BY DEF OwnRegistration
    <2>1. g # f
      BY <1>1, <1>7 DEF OwnRegistration, Opened
    <2>. QED
      BY <1>1, <1>6, <2>1, RegistrationStays
  <1>11. BatchKept'
    BY <1>1 DEF BatchKept, InMap
  <1>. QED
    BY <1>2, <1>5, <1>8, <1>9, <1>10, <1>11

LEMMA AddKeeps ==
  ASSUME Sound, NEW c \in Channels, Add(c)
  PROVE  Sound'
  <1>. USE DEF Sound
  <1>. DEFINE f == fd[c]
  <1>1. /\ f \in Fds /\ FdOpen(c) /\ c # None /\ c \notin removed /\ c \in user
        /\ channels[f] = None /\ interest[f] = None
        /\ channels' = [channels EXCEPT ![f] = c] /\ interest' = [interest EXCEPT ![f] = c]
        /\ UNCHANGED <<waitRemove, fd, user, removed, closedFd, given, hasty, strays, crashed, batch>>
    BY KindsAssumption DEF Add, FdOpen, None
  <1>2. TypeOK'
    BY <1>1 DEF Add, TypeOK
  <1>3. /\ channels'[f] = c /\ interest'[f] = c
        /\ \A g \in Fds \ {f} : channels'[g] = channels[g] /\ interest'[g] = interest[g]
    BY <1>1 DEF TypeOK
  <1>4. \A d \in InMap' : d = c \/ d \in InMap
    BY <1>1, <1>3, MapMembers DEF InMap
  <1>5. \A d \in Channels : Alive(d)' => Alive(d)
    BY <1>1, <1>4 DEF Alive
  <1>6. \A d \in Channels : FdOpen(d)' => FdOpen(d)
    BY <1>1, <1>5, NoneReopens
  <1>7. \A g \in Fds : Owner(g)' \subseteq Owner(g)
    BY <1>1, <1>6 DEF Owner
  <1>8. MapHolds' /\ SocketsOpen'
    BY <1>1, <1>3 DEF MapHolds, SocketsOpen
  <1>9. OneOwner'
    BY <1>1, <1>6, <1>7 DEF OneOwner, TypeOK
  <1>10. OwnRegistration'
    <2>. SUFFICES ASSUME NEW g \in Fds \ strays', Opened(g)', interest'[g] # None
                  PROVE  Owner(g)' = {interest'[g]} /\ channels'[g] = interest'[g]
      BY DEF OwnRegistration
    <2>1. CASE g = f
      <3>1. FdOpen(c)'
        BY <1>1 DEF FdOpen, Alive
      <3>2. c \in Owner(f)'
        BY <1>1, <3>1 DEF Owner
      <3>3. \A d \in Owner(f)' : d = c
        BY <1>1, <1>7 DEF OneOwner, Owner
      <3>. QED
        BY <1>1, <1>3, <2>1, <3>2, <3>3
    <2>2. CASE g # f
      BY <1>1, <1>3, <1>7, <2>2, RegistrationStays
    <2>. QED
      BY <2>1, <2>2
  <1>11. BatchKept'
    <2>1. InMap \subseteq InMap'
      BY <1>1, <1>3, MapMembers DEF InMap
    <2>. QED
      BY <1>1, <2>1 DEF BatchKept
  <1>. QED
    BY <1>2, <1>8, <1>9, <1>10, <1>11

\* Remove erases whoever has the number; without a hasty close that is the channel itself.
LEMMA RemoveKeeps ==
  ASSUME Sound, NEW c \in Channels, Remove(c)
  PROVE  Sound'
  <1>. USE DEF Sound
  <1>. DEFINE f == fd[c]
  <1>1. /\ f # None /\ c # None /\ c \in user /\ c \notin removed
        /\ f \in Fds \cup {Given} /\ Given \notin Fds
        /\ removed' = removed \cup {c}
        /\ UNCHANGED <<fd, user, closedFd, given, hasty, crashed, batch>>
    BY KindsAssumption DEF Remove, TypeOK, None, Given
  <1>2. SocketsOpen'
    BY <1>1 DEF SocketsOpen
  <1>3. ASSUME NEW g \in Fds, channels[g] = c
        PROVE  g = f \/ (f = Given /\ c \in hasty)
    <2>1. channels[g] # None
      BY <1>1, <1>3
    <2>. QED
      BY <1>3, <2>1 DEF MapHolds
  <1>4. CASE ~(f # Given /\ channels[f] # None)
    <2>1. UNCHANGED <<waitRemove, channels, interest, strays, clearWaitRemove, notifying>>
      BY <1>4 DEF Remove
    <2>2. TypeOK'
      BY <1>1, <2>1 DEF Remove, TypeOK
    <2>3. MapHolds'
      BY <1>1, <1>3, <1>4, <2>1 DEF MapHolds
    <2>4. \A d \in Channels : FdOpen(d)' <=> FdOpen(d)
      BY <1>1, <2>1 DEF FdOpen, Alive, InMap
    <2>5. \A g \in Fds : Owner(g)' = Owner(g)
      BY <1>1, <2>4 DEF Owner
    <2>6. OneOwner' /\ OwnRegistration'
      BY <1>1, <2>1, <2>4, <2>5 DEF OneOwner, OwnRegistration, Opened, TypeOK
    <2>7. BatchKept'
      BY <1>1, <2>1 DEF BatchKept, InMap
    <2>. QED
      BY <1>2, <2>2, <2>3, <2>6, <2>7
  <1>5. CASE f # Given /\ channels[f] # None
    <2>1. /\ waitRemove' = waitRemove \cup {c} /\ channels' = [channels EXCEPT ![f] = None]
          /\ interest' = [interest EXCEPT ![f] = None] /\ clearWaitRemove' = clearWaitRemove + 1
          /\ notifying' \subseteq notifying \cup {c} /\ strays' = strays \ {f}
      BY <1>5 DEF Remove, RemoveFound, Kept, Erased, Deleted
    <2>2. /\ f \in Fds /\ channels'[f] = None /\ interest'[f] = None
          /\ \A g \in Fds \ {f} : channels'[g] = channels[g] /\ interest'[g] = interest[g]
      BY <1>1, <1>5, <2>1 DEF TypeOK
    <2>3. TypeOK'
      <3>1. channels' \in [Fds -> Channels \cup {None}] /\ interest' \in [Fds -> Channels \cup {None}]
        BY <2>1 DEF TypeOK
      <3>2. clearWaitRemove' \in Nat /\ notifying' \subseteq Pointers
        BY <2>1 DEF TypeOK, Pointers
      <3>. QED
        BY <1>1, <2>1, <3>1, <3>2 DEF Remove, TypeOK
    <2>4. MapHolds'
      BY <1>1, <1>3, <1>5, <2>2 DEF MapHolds
    <2>5. InMap' \subseteq InMap
      BY <1>1, <2>2 DEF InMap
    <2>6. \A d \in Channels : Alive(d)' => Alive(d)
      BY <1>1, <2>1, <2>5 DEF Alive
    <2>7. \A d \in Channels : FdOpen(d)' => FdOpen(d)
      BY <1>1, <2>6, NoneReopens
    <2>8. \A g \in Fds : Owner(g)' \subseteq Owner(g)
      BY <1>1, <2>7 DEF Owner
    <2>9. OneOwner'
      BY <1>1, <2>7, <2>8 DEF OneOwner, TypeOK
    <2>10. OwnRegistration'
      <3>. SUFFICES ASSUME NEW g \in Fds \ strays', Opened(g)', interest'[g] # None
                    PROVE  Owner(g)' = {interest'[g]} /\ channels'[g] = interest'[g]
        BY DEF OwnRegistration
      <3>1. g # f /\ g \notin strays
        BY <2>1, <2>2
      <3>. QED
        BY <1>1, <2>2, <2>8, <3>1, RegistrationStays
    <2>11. BatchKept'
      <3>. SUFFICES ASSUME hasty' = {}
                    PROVE  /\ closedFd' \subseteq removed' /\ strays' = {} /\ ~crashed'
                           /\ batch' \ {"notify"} \subseteq InMap' \cup waitRemove'
        BY DEF BatchKept
      <3>1. /\ hasty = {} /\ closedFd \subseteq removed /\ strays = {} /\ ~crashed
            /\ batch \ {"notify"} \subseteq InMap \cup waitRemove
        BY <1>1 DEF BatchKept
      <3>2. channels[f] = c
        <4>1. channels[f] \in Channels /\ fd[channels[f]] = f /\ channels[f] \notin removed
          BY <1>1, <1>5, <2>2, <3>1 DEF MapHolds, TypeOK
        <4>2. FdOpen(channels[f])
          BY <1>5, <2>2, <3>1, <4>1, MapMembers DEF FdOpen, Alive
        <4>3. FdOpen(c)
          BY <1>1, <2>2, <3>1 DEF FdOpen, Alive
        <4>. QED
          BY <4>1, <4>2, <4>3 DEF OneOwner
      <3>3. InMap \subseteq InMap' \cup {c}
        BY <1>1, <2>2, <3>2 DEF InMap
      <3>. QED
        BY <1>1, <2>1, <3>1, <3>3
    <2>. QED
      BY <1>2, <2>3, <2>4, <2>9, <2>10, <2>11
  <1>. QED
    BY <1>4, <1>5

\* What a step that gives a number away does to the numbers.
LEMMA GiveAwayKeeps ==
  ASSUME Sound, NEW c \in Channels, c \in user, FdOpen(c), c \notin Sockets, GiveAway(c),
         closedFd' = closedFd, user' = user, InMap' \subseteq InMap,
         waitRemove' \subseteq waitRemove \cup {c}
  PROVE  /\ fd'[c] = Given /\ \A d \in Channels \ {c} : fd'[d] = fd[d]
         /\ \A g \in Fds : Owner(g)' \subseteq Owner(g)
         /\ OneOwner' /\ SocketsOpen'
         /\ fd' \in [Channels -> Fds \cup {None, Given}]
         /\ hasty' \cup hasty \subseteq Channels /\ given' \cup strays' \subseteq Fds
         /\ hasty \subseteq hasty' /\ strays \subseteq strays'
  <1>. USE DEF Sound
  <1>1. /\ fd[c] \in Fds /\ fd' = [fd EXCEPT ![c] = Given] /\ given' = given \cup {fd[c]}
        /\ \/ hasty' = hasty /\ strays' = strays
           \/ hasty' = hasty \cup {c} /\ strays' = strays \cup {fd[c]}
    BY DEF GiveAway, FdOpen
  <1>2. /\ fd'[c] = Given /\ \A d \in Channels \ {c} : fd'[d] = fd[d]
        /\ fd' \in [Channels -> Fds \cup {None, Given}] /\ Given \notin Fds
    BY <1>1, KindsAssumption DEF TypeOK, Given
  <1>3. \A d \in Channels : Alive(d)' => Alive(d)
    BY DEF Alive
  <1>4. ~FdOpen(c)' /\ \A d \in Channels : FdOpen(d)' => FdOpen(d)
    BY <1>2, <1>3 DEF FdOpen
  <1>5. \A g \in Fds : Owner(g)' \subseteq Owner(g)
    BY <1>2, <1>4 DEF Owner
  <1>6. ASSUME NEW g \in Fds, g = fd[c]
        PROVE  Owner(g)' = {}
    <2>1. \A d \in Channels : FdOpen(d) /\ fd[d] = g => d = c
      BY <1>6 DEF OneOwner
    <2>. QED
      BY <1>2, <1>4, <2>1 DEF Owner
  <1>7. OneOwner'
    <2>1. \A d, e \in Channels : FdOpen(d)' /\ FdOpen(e)' /\ fd'[d] = fd'[e] => d = e
      BY <1>2, <1>4 DEF OneOwner
    <2>2. \A g \in given' : Owner(g)' = {}
      BY <1>1, <1>5, <1>6 DEF OneOwner, TypeOK
    <2>. QED
      BY <2>1, <2>2 DEF OneOwner
  <1>8. SocketsOpen'
    BY <1>2 DEF SocketsOpen, Channels
  <1>. QED
    BY <1>1, <1>2, <1>5, <1>7, <1>8 DEF TypeOK

LEMMA GiveFdKeeps ==
  ASSUME Sound, NEW c \in Channels, GiveFd(c)
  PROVE  Sound'
  <1>. USE DEF Sound
  <1>. DEFINE f == fd[c]
  <1>1. /\ c \in user /\ FdOpen(c) /\ c \notin Sockets /\ GiveAway(c) /\ f \in Fds
        /\ UNCHANGED <<channels, waitRemove, user, removed, closedFd, interest, crashed, batch>>
    BY KindsAssumption DEF GiveFd, MayGive, FdOpen
  <1>2. InMap' = InMap
    BY <1>1 DEF InMap
  <1>3. /\ fd'[c] = Given /\ \A d \in Channels \ {c} : fd'[d] = fd[d]
        /\ \A g \in Fds : Owner(g)' \subseteq Owner(g)
        /\ OneOwner' /\ SocketsOpen'
        /\ fd' \in [Channels -> Fds \cup {None, Given}]
        /\ hasty' \cup hasty \subseteq Channels /\ given' \cup strays' \subseteq Fds
        /\ hasty \subseteq hasty' /\ strays \subseteq strays'
    BY <1>1, <1>2, GiveAwayKeeps
  <1>4. TypeOK'
    BY <1>1, <1>3 DEF GiveFd, TypeOK
  <1>5. c \notin removed => c \in hasty' /\ f \in strays'
    BY <1>1 DEF GiveAway
  <1>6. f # Given
    BY <1>1, KindsAssumption DEF Given
  <1>7. MapHolds'
    BY <1>1, <1>3, <1>5, <1>6 DEF MapHolds, TypeOK
  <1>8. OwnRegistration'
    <2>. SUFFICES ASSUME NEW g \in Fds \ strays', Opened(g)', interest'[g] # None
                  PROVE  Owner(g)' = {interest'[g]} /\ channels'[g] = interest'[g]
      BY DEF OwnRegistration
    <2>1. g \notin strays
      BY <1>3
    <2>2. CASE g = f
      <3>1. c \in removed
        BY <1>5, <2>2
      <3>2. c \in Owner(f)
        BY <1>1 DEF Owner
      <3>3. channels[f] = c /\ c # None
        BY <1>1, <2>1, <2>2, <3>2 DEF OwnRegistration, Opened
      <3>. QED
        BY <1>1, <1>6, <3>1, <3>3 DEF MapHolds
    <2>3. CASE g # f
      <3>1. g \in given' => g \in given
        BY <1>1, <2>3 DEF GiveAway
      <3>. QED
        BY <1>1, <1>3, <2>1, <3>1, RegistrationStays
    <2>. QED
      BY <2>2, <2>3
  <1>9. BatchKept'
    BY <1>1, <1>2 DEF BatchKept, GiveAway
  <1>. QED
    BY <1>3, <1>4, <1>7, <1>8, <1>9

LEMMA RemoveWhileGivenKeeps ==
  ASSUME Sound, NEW c \in Channels, RemoveWhileGiven(c)
  PROVE  Sound'
  <1>. USE DEF Sound
  <1>. DEFINE f == fd[c]
  <1>1. /\ c \in user /\ FdOpen(c) /\ c \notin Sockets /\ c \notin removed /\ GiveAway(c)
        /\ f \in Fds /\ channels[f] # None /\ removed' = removed \cup {c}
        /\ waitRemove' = waitRemove \cup {c} /\ channels' = [channels EXCEPT ![f] = None]
        /\ clearWaitRemove' = clearWaitRemove + 1 /\ notifying' \subseteq notifying \cup {c}
        /\ UNCHANGED <<user, closedFd, interest, crashed, batch>>
    BY KindsAssumption DEF RemoveWhileGiven, RemoveFound, Served, Kept, Erased, FdOpen
  <1>2. /\ channels'[f] = None /\ \A g \in Fds \ {f} : channels'[g] = channels[g]
        /\ channels' \in [Fds -> Channels \cup {None}]
    BY <1>1 DEF TypeOK
  <1>3. InMap' \subseteq InMap
    BY <1>1, <1>2 DEF InMap
  <1>4. /\ fd'[c] = Given /\ \A d \in Channels \ {c} : fd'[d] = fd[d]
        /\ \A g \in Fds : Owner(g)' \subseteq Owner(g)
        /\ OneOwner' /\ SocketsOpen'
        /\ fd' \in [Channels -> Fds \cup {None, Given}]
        /\ hasty' \cup hasty \subseteq Channels /\ given' \cup strays' \subseteq Fds
        /\ hasty \subseteq hasty' /\ strays \subseteq strays'
    BY <1>1, <1>3, GiveAwayKeeps
  <1>5. TypeOK'
    <2>1. clearWaitRemove' \in Nat /\ notifying' \subseteq Pointers
      BY <1>1 DEF TypeOK, Pointers
    <2>. QED
      BY <1>1, <1>2, <1>4, <2>1 DEF RemoveWhileGiven, TypeOK
  <1>6. c \in hasty' /\ f \in strays'
    BY <1>1 DEF GiveAway
  <1>7. f # Given
    BY <1>1, KindsAssumption DEF Given
  <1>8. MapHolds'
    <2>. SUFFICES ASSUME NEW g \in Fds, channels'[g] # None
                  PROVE  \/ fd'[channels'[g]] = g /\ channels'[g] \notin removed'
                         \/ fd'[channels'[g]] = Given /\ channels'[g] \in hasty'
      BY DEF MapHolds
    <2>1. g # f /\ channels'[g] = channels[g] /\ channels[g] \in Channels
      BY <1>2 DEF TypeOK
    <2>2. channels[g] # c
      BY <1>7, <2>1 DEF MapHolds
    <2>. QED
      BY <1>1, <1>4, <2>1, <2>2 DEF MapHolds
  <1>9. OwnRegistration'
    <2>. SUFFICES ASSUME NEW g \in Fds \ strays', Opened(g)', interest'[g] # None
                  PROVE  Owner(g)' = {interest'[g]} /\ channels'[g] = interest'[g]
      BY DEF OwnRegistration
    <2>1. g \notin strays /\ g # f
      BY <1>4, <1>6
    <2>2. g \in given' => g \in given
      BY <1>1, <2>1 DEF GiveAway
    <2>. QED
      BY <1>1, <1>2, <1>4, <2>1, <2>2, RegistrationStays
  <1>10. BatchKept'
    BY <1>6 DEF BatchKept
  <1>. QED
    BY <1>4, <1>5, <1>8, <1>9, <1>10

\* The number Enable and Disable find is the socket's own, for it is open while the socket
\* is there.
LEMMA ModifyKeeps ==
  ASSUME Sound, NEW c \in Channels, Modify(c)
  PROVE  Sound'
  <1>. USE DEF Sound
  <1>. DEFINE f == fd[c]
  <1>1. /\ c \in user /\ c \in Sockets /\ f # None /\ c # None
        /\ interest' = [interest EXCEPT ![f] = IF @ = None THEN None ELSE c]
        /\ UNCHANGED <<channels, waitRemove, fd, user, removed, closedFd, given, hasty, strays, crashed, batch>>
    BY KindsAssumption DEF Modify, None
  <1>2. FdOpen(c) /\ f \in Fds
    BY <1>1 DEF FdOpen, Alive, SocketsOpen, TypeOK
  <1>3. /\ \A g \in Fds \ {f} : interest'[g] = interest[g]
        /\ interest'[f] = IF interest[f] = None THEN None ELSE c
        /\ interest' \in [Fds -> Channels \cup {None}]
    BY <1>1, <1>2 DEF TypeOK
  <1>4. TypeOK'
    BY <1>1, <1>3 DEF Modify, TypeOK
  <1>5. MapHolds' /\ SocketsOpen'
    BY <1>1 DEF MapHolds, SocketsOpen
  <1>6. \A d \in Channels : FdOpen(d)' <=> FdOpen(d)
    BY <1>1 DEF FdOpen, Alive, InMap
  <1>7. \A g \in Fds : Owner(g)' = Owner(g)
    BY <1>1, <1>6 DEF Owner
  <1>8. OneOwner'
    BY <1>1, <1>6, <1>7 DEF OneOwner, TypeOK
  <1>9. OwnRegistration'
    <2>. SUFFICES ASSUME NEW g \in Fds \ strays', Opened(g)', interest'[g] # None
                  PROVE  Owner(g)' = {interest'[g]} /\ channels'[g] = interest'[g]
      BY DEF OwnRegistration
    <2>1. interest'[g] = interest[g]
      <3>1. CASE g = f
        <4>1. c \in Owner(f) /\ Opened(f) /\ interest[f] # None
          BY <1>2, <1>3, <3>1 DEF Owner, Opened
        <4>2. interest[f] = c
          BY <1>1, <3>1, <4>1 DEF OwnRegistration
        <4>. QED
          BY <1>1, <1>3, <3>1, <4>2
      <3>2. CASE g # f
        BY <1>3, <3>2
      <3>. QED
        BY <3>1, <3>2
    <2>. QED
      BY <1>1, <1>7, <2>1, RegistrationStays
  <1>10. BatchKept'
    BY <1>1 DEF BatchKept, InMap
  <1>. QED
    BY <1>4, <1>5, <1>8, <1>9, <1>10

LEMMA CloseFdKeeps ==
  ASSUME Sound, NEW c \in Channels, CloseFd(c)
  PROVE  Sound'
  <1>. USE DEF Sound
  <1>1. /\ closedFd' = closedFd \cup {c} /\ hasty' = hasty \cup ({c} \ removed) /\ c \notin Sockets
        /\ UNCHANGED <<channels, waitRemove, fd, user, removed, given, interest, strays, crashed, batch>>
    BY KindsAssumption DEF CloseFd, MayClose
  <1>2. TypeOK'
    BY <1>1 DEF CloseFd, TypeOK
  <1>3. \A d \in Channels : FdOpen(d)' => FdOpen(d)
    BY <1>1, NoneReopens DEF Alive, InMap
  <1>4. \A g \in Fds : Owner(g)' \subseteq Owner(g)
    BY <1>1, <1>3 DEF Owner
  <1>5. MapHolds' /\ SocketsOpen'
    BY <1>1 DEF MapHolds, SocketsOpen
  <1>6. OneOwner'
    BY <1>1, <1>3, <1>4 DEF OneOwner, TypeOK
  <1>7. OwnRegistration'
    BY <1>1, <1>4, RegistrationStays DEF OwnRegistration
  <1>8. BatchKept'
    BY <1>1 DEF BatchKept, InMap
  <1>. QED
    BY <1>2, <1>5, <1>6, <1>7, <1>8

LEMMA DropKeeps ==
  ASSUME Sound, NEW c \in Channels, Drop(c)
  PROVE  Sound'
  <1>. USE DEF Sound
  <1>1. /\ user' = user \ {c}
        /\ UNCHANGED <<channels, waitRemove, fd, removed, closedFd, given, interest, hasty, strays, crashed, batch>>
    BY DEF Drop
  <1>2. TypeOK'
    BY <1>1 DEF Drop, TypeOK
  <1>3. (MapHolds /\ OneOwner /\ SocketsOpen /\ OwnRegistration)'
    BY <1>1, RegistrationsStay DEF Alive, InMap, SocketsOpen
  <1>4. BatchKept'
    BY <1>1 DEF BatchKept, InMap
  <1>. QED
    BY <1>2, <1>3, <1>4

\* What is registered is in the map, so that the batch is.
LEMMA RegisteredAreKept ==
  ASSUME Sound, strays = {}, NEW p \in Registered
  PROVE  p \in InMap /\ p \in Channels
  <1>. USE DEF Sound
  <1>1. PICK f \in Fds : Opened(f) /\ interest[f] = p /\ p # None
    BY DEF Registered
  <1>2. channels[f] = p
    BY <1>1 DEF OwnRegistration
  <1>. QED
    BY <1>1, <1>2 DEF InMap, TypeOK

LEMMA EpollWaitKeeps ==
  ASSUME Sound, EpollWait
  PROVE  Sound'
  <1>. USE DEF Sound
  <1>1. /\ batch' \subseteq Registered \cup {"notify"} /\ rpc' = "batch"
        /\ UNCHANGED <<channels, waitRemove, fd, user, removed, closedFd, given, interest, hasty, strays, crashed>>
    BY DEF EpollWait
  <1>2. Registered \subseteq Channels
    BY DEF Registered, TypeOK
  <1>3. TypeOK'
    BY <1>1, <1>2 DEF EpollWait, TypeOK, Pointers
  <1>4. (MapHolds /\ OneOwner /\ SocketsOpen /\ OwnRegistration)'
    BY <1>1, RegistrationsStay DEF Alive, InMap, SocketsOpen
  <1>5. InMap' = InMap
    BY <1>1 DEF InMap
  <1>6. BatchKept'
    BY <1>1, <1>5, RegisteredAreKept DEF BatchKept
  <1>. QED
    BY <1>3, <1>4, <1>6

LEMMA OnActiveKeeps ==
  ASSUME Sound, NEW c \in Channels, OnActive(c)
  PROVE  Sound'
  <1>. USE DEF Sound
  <1>1. /\ c \in batch /\ c # "notify" /\ batch' = batch \ {c}
        /\ UNCHANGED <<channels, waitRemove, fd, removed, closedFd, given, interest, hasty, strays>>
        /\ IF Alive(c) THEN user' \in {user, user \cup {c}} /\ UNCHANGED crashed
                       ELSE crashed' = TRUE /\ UNCHANGED user
    BY KindsAssumption DEF OnActive
  <1>2. TypeOK'
    BY <1>1 DEF OnActive, TypeOK
  <1>3. \A d \in Channels : Alive(d)' => Alive(d)
    BY <1>1 DEF Alive, InMap
  <1>4. (MapHolds /\ OneOwner /\ SocketsOpen /\ OwnRegistration)'
    BY <1>1, <1>3, RegistrationsStay DEF SocketsOpen
  <1>5. BatchKept'
    <2>1. InMap' = InMap
      BY <1>1 DEF InMap
    <2>. QED
      BY <1>1, <2>1 DEF BatchKept, Alive
  <1>. QED
    BY <1>2, <1>4, <1>5

LEMMA ClearKeeps ==
  ASSUME Sound, Clear
  PROVE  Sound'
  <1>. USE DEF Sound
  <1>1. /\ batch = {} /\ waitRemove' = {}
        /\ UNCHANGED <<channels, fd, user, removed, closedFd, given, interest, hasty, strays, crashed, batch>>
    BY DEF Clear
  <1>2. TypeOK'
    BY <1>1 DEF Clear, TypeOK
  <1>3. (MapHolds /\ OneOwner /\ SocketsOpen /\ OwnRegistration)'
    BY <1>1, RegistrationsStay DEF Alive, InMap, SocketsOpen
  <1>4. BatchKept'
    BY <1>1 DEF BatchKept
  <1>. QED
    BY <1>2, <1>3, <1>4

\* The pipe, the flag of Stop, the loop of Run and the close of a number that a callback
\* holds do not touch the channels.
LEMMA OthersKeep ==
  ASSUME Sound,
         \/ Check \/ OnNotify \/ Run \/ Stop \/ UNCHANGED vars
         \/ \E c \in Pointers : Notify(c)
         \/ \E f \in Fds : CloseGiven(f)
  PROVE  Sound'
  <1>. USE DEF Sound
  <1>1. /\ UNCHANGED <<channels, waitRemove, fd, user, removed, closedFd, interest, hasty, strays, crashed>>
        /\ batch' \subseteq batch /\ given' \subseteq given
    BY DEF Check, OnNotify, Run, Stop, Notify, CloseGiven, vars
  <1>2. TypeOK'
    BY DEF Check, OnNotify, Run, Stop, StopTells, Notify, CloseGiven, vars, TypeOK, Pointers
  <1>3. (MapHolds /\ OneOwner /\ SocketsOpen /\ OwnRegistration)'
    BY <1>1, RegistrationsStay DEF Alive, InMap, SocketsOpen
  <1>4. BatchKept'
    BY <1>1 DEF BatchKept, InMap
  <1>. QED
    BY <1>2, <1>3, <1>4

LEMMA SoundKept == Sound /\ [Next]_vars => Sound'
  <1>. SUFFICES ASSUME Sound, [Next]_vars
                PROVE  Sound'
    OBVIOUS
  <1>1. ASSUME NEW c \in Channels,
               Add(c) \/ Remove(c) \/ Modify(c) \/ CloseFd(c) \/ Drop(c) \/ GiveFd(c) \/ RemoveWhileGiven(c)
        PROVE  Sound'
    BY <1>1, AddKeeps, RemoveKeeps, ModifyKeeps, CloseFdKeeps, DropKeeps, GiveFdKeeps, RemoveWhileGivenKeeps
  <1>2. ASSUME NEW c \in Channels, NEW f \in Fds, Open(c, f) \/ Adopt(c, f)
        PROVE  Sound'
    BY <1>2, OpenKeeps, AdoptKeeps
  <1>3. CASE EpollWait \/ Clear \/ \E c \in Channels : OnActive(c)
    BY <1>3, EpollWaitKeeps, ClearKeeps, OnActiveKeeps
  <1>. QED
    BY <1>1, <1>2, <1>3, OthersKeep DEF Next, Poll

-----------------------------------------------------------------------------
\* In every reachable state an open number that no connector gave away too soon is registered
\* for the one channel that owns it, which the map has there; and as long as every channel was
\* removed before its descriptor was closed or given away, every raw pointer of the kernel and
\* of the batch is to a channel that the map or waitRemove keep (Poller.cpp:85-155,
\* Epoll.cpp:38-132, TCPConnector.cpp:102-138).
THEOREM RegistrationsStaySound == Spec => []RegistrationsSound
  <1>1. Sound => RegistrationsSound
    <2>. SUFFICES ASSUME Sound
                  PROVE  PointersAlive
      BY DEF Sound, RegistrationsSound
    <2>1. ASSUME hasty = {}, NEW p \in (batch \cup Registered) \ {"notify"}
          PROVE  Alive(p)
      BY <2>1, RegisteredAreKept DEF Sound, BatchKept, Alive
    <2>. QED
      BY <2>1 DEF PointersAlive, Sound, BatchKept
  <1>. QED
    BY <1>1, SoundInit, SoundKept, PTL DEF Spec, Safety

\* What the map holds is under the number its channel has and was not removed, but for the
\* connectors that gave their number away before they were removed, whose entries stay; and an
\* open number has one owner, a channel or a callback, whatever was closed or given away before
\* it was removed (Poller.cpp:85-119, TCPConnector.cpp:104, 124-147).
THEOREM MapIsRight == Spec => [](MapHolds /\ OneOwner)
  <1>1. Sound => MapHolds /\ OneOwner
    BY DEF Sound
  <1>. QED
    BY <1>1, SoundInit, SoundKept, PTL DEF Spec, Safety
=============================================================================
