------------------------------ MODULE IpcProofs ------------------------------
(***************************************************************************)
(* For every number of clients and generators and every size of the        *)
(* descriptor table and of the socket buffers: the loss counters err only  *)
(* after a collision, a handler keeps the connection it was created for    *)
(* unless two accepts overlapped, the handshake then comes first, and      *)
(* accept is refused only when the table is full.                          *)
(*                                                                         *)
(* The inductive invariant says who owns each descriptor.  A descriptor of *)
(* a connection is never closed, so it names one client for good; the      *)
(* accept loop owns com_fd only from accept to pthread_create.             *)
(***************************************************************************)
EXTENDS Ipc, FiniteSetTheorems, WellFoundedInduction, TLAPS

-----------------------------------------------------------------------------
(* The inductive invariant. *)

(* What a generator is about to store covers what it has itself just sent; *)
(* without a collision it is the only one, and what it loaded is current.  *)
Counters ==
    /\ CountersTypeOK
    /\ \A g \in Generators : \E n \in 0..MaxPackets : total_send_byte[g] = n * Pktlen
    /\ send_total <= SentBytes
    /\ \A g \in Storing : loaded[g] + Pktlen <= SentBytes
    /\ ~collided =>
         /\ \A g, h \in Storing : g = h
         /\ \A g \in Storing : loaded[g] = send_total
         /\ send_total + Pending = SentBytes

(* The listening socket, stdout and the configuration file have at most    *)
(* one descriptor each.                                                    *)
Table ==
    /\ \A d \in Fds : open[d] = "stdout" => d = STDOUT
    /\ \A d \in Fds : open[d] = "listen" => d = listen_fd
    /\ \A d \in Fds : open[d] = "file" => d = file_fd /\ reload = "reading"
    /\ \A d, e \in Fds : open[d] \in Clients /\ open[d] = open[e] => d = e

(* The accept loop: what it has accepted has no handler yet, everything    *)
(* else has; close is reached only after a refusal.                        *)
Server ==
    /\ server = "create" =>
         ~refused /\ \A d \in Fds : open[d] \notin Clients \cup {"listen"}
    /\ server = "spawn" => com_fd \in Fds /\ open[com_fd] \in Clients
    /\ \A d \in Fds : open[d] \in Clients =>
         (handler[open[d]] = "none" <=> server = "spawn" /\ d = com_fd)
    /\ server = "close" => refused
    /\ listen_fd \in Fds => open[listen_fd] \notin Clients
    /\ (~refused /\ server # "create" /\ listen_fd # STDOUT) => Listening

(* A client is new, waits, or has been accepted. *)
Waiting ==
    /\ \A c \in Clients : client[c] = "new" =>
         /\ handler[c] = "none" /\ inbox[c] = <<>> /\ \A d \in Fds : open[d] # c
         /\ \A i \in DOMAIN backlog : backlog[i] # c
    /\ \A i \in DOMAIN backlog : \A d \in Fds : open[d] # backlog[i]
    /\ \A i \in DOMAIN backlog : handler[backlog[i]] = "none"
    /\ \A i, j \in DOMAIN backlog : backlog[i] = backlog[j] => i = j
    /\ \A c \in Clients : reply[c] /\ Alive(c) => client[c] = "stream"

(* Without an overlap a handler works for the client it was created for,   *)
(* and nobody has written to that client before.                           *)
Mine(c) ==
    /\ handler[c] = "start" => Refers(com_fd, c)
    /\ handler[c] \in {"greet", "read", "write"} => Refers(fd[c], c)
    /\ handler[c] \in {"none", "start", "greet"} =>
         inbox[c] = <<>> /\ client[c] \in {"new", "sync", "gone"}
    /\ handler[c] = "write" /\ Alive(c) => client[c] = "stream"

IInv ==
    /\ TypeOK
    /\ Counters
    /\ Table
    /\ Server
    /\ Waiting
    /\ ~overlapped => \A c \in Clients : Mine(c)
    /\ HandshakeFirst
    /\ ReloadUndisturbed
    /\ RefusesOnlyWhenFull

-----------------------------------------------------------------------------
(* Facts used by every step. *)

(* A non-empty set of numbers has a least element, and Min finds it. *)
LEMMA Least ==
    ASSUME NEW S \in SUBSET Nat, S # {} PROVE Min(S) \in S
<1> DEFINE R == OpToRel(<, Nat)
<1>1. IsWellFoundedOn(R, Nat)
  BY NatLessThanWellFounded
<1>2. \A x, y \in Nat : <<x, y>> \in R <=> x < y
  BY DEF OpToRel
<1> HIDE DEF R
<1>3. PICK x \in S : \A y \in S : ~(<<y, x>> \in R)
  BY <1>1, WFMin
<1>4. ASSUME NEW y \in S PROVE x <= y
  <2>1. x \in Nat /\ y \in Nat /\ <<y, x>> \notin R
    BY <1>3
  <2>2. ~(y < x)
    BY <1>2, <2>1
  <2> QED
    BY <2>1, <2>2
<1> QED
  BY <1>4 DEF Min

(* Descriptors, and what is not one. *)
LEMMA FdFacts ==
    /\ STDOUT \in Fds /\ Failed \notin Fds /\ Fds \subseteq Nat
    /\ IsFiniteSet(Fds) /\ Cardinality(Fds) = MaxFd
    /\ "stdout" \notin Clients /\ "listen" \notin Clients
    /\ "file" \notin Clients /\ "free" \notin Clients
<1>1. 1 \in Int /\ MaxFd \in Int /\ MaxFd >= 2
  BY IpcAssumption
<1>2. STDOUT \in Fds /\ Failed \notin Fds /\ Fds \subseteq Nat
  BY <1>1 DEF STDOUT, Fds, Failed
<1>3. Fds = 1..MaxFd
  BY DEF Fds, STDOUT
<1>4. IsFiniteSet(1..MaxFd) /\ Cardinality(1..MaxFd) = IF 1 > MaxFd THEN 0 ELSE MaxFd - 1 + 1
  BY <1>1, FS_Interval
<1>5. Cardinality(Fds) = MaxFd
  BY <1>1, <1>3, <1>4
<1> QED
  BY <1>2, <1>3, <1>4, <1>5, IpcAssumption

(* The lowest free descriptor is a free descriptor. *)
LEMMA LowestFree ==
    ASSUME FreeFds # {} PROVE Min(FreeFds) \in Fds /\ open[Min(FreeFds)] = "free"
<1>1. FreeFds \in SUBSET Nat
  BY FdFacts DEF FreeFds
<1>2. Min(FreeFds) \in FreeFds
  BY <1>1, Least
<1> QED
  BY <1>2 DEF FreeFds

-----------------------------------------------------------------------------
(* The counters. *)

(* The bytes sent are finitely many. *)
LEMMA SentFinite ==
    IsFiniteSet(Sent) /\ SentBytes \in Nat
<1>1. MaxPackets * Pktlen \in Int
  BY CountersAssumption
<1>2. IsFiniteSet(1..(MaxPackets * Pktlen))
  BY <1>1, FS_Interval
<1>3. IsFiniteSet(Generators \X (1..(MaxPackets * Pktlen)))
  BY <1>2, CountersAssumption, FS_Product
<1>4. Sent \in SUBSET (Generators \X (1..(MaxPackets * Pktlen)))
  BY DEF Sent
<1> QED
  BY <1>3, <1>4, FS_Subset, FS_CardinalityType DEF SentBytes

(* Sending a packet adds Pktlen bytes. *)
LEMMA SentGrows ==
    ASSUME CountersTypeOK, NEW g \in Generators, NEW k \in Nat,
           total_send_byte[g] + k <= MaxPackets * Pktlen,
           total_send_byte' = [total_send_byte EXCEPT ![g] = total_send_byte[g] + k]
    PROVE  SentBytes' = SentBytes + k
<1> DEFINE top == MaxPackets * Pktlen
           had == total_send_byte[g]
           more == {g} \X ((had + 1)..(had + k))
<1>1. top \in Nat /\ had \in Nat /\ had + k <= top
  BY CountersAssumption DEF CountersTypeOK
<1>2. total_send_byte'[g] = had + k
      /\ \A h \in Generators : h # g => total_send_byte'[h] = total_send_byte[h]
  BY DEF CountersTypeOK
<1>3. Sent' = Sent \cup more /\ Sent \cap more = {}
  <2>1. \A h \in Generators : total_send_byte[h] \in Int
    BY CountersAssumption DEF CountersTypeOK
  <2> DEFINE all == 1..top
  <2>2. Sent = {b \in Generators \X all : b[2] <= total_send_byte[b[1]]}
        /\ Sent' = {b \in Generators \X all : b[2] <= total_send_byte'[b[1]]}
    BY DEF Sent
  <2> HIDE DEF top, had
  <2>3. ASSUME NEW h \in Generators, NEW n \in all
        PROVE  n <= total_send_byte'[h]
                 <=> n <= total_send_byte[h] \/ (h = g /\ n \in (had + 1)..(had + k))
    BY <1>1, <1>2, <2>1 DEF had
  <2>4. ASSUME NEW n \in (had + 1)..(had + k)
        PROVE  n \in all /\ ~(n <= total_send_byte[g])
    BY <1>1 DEF had
  <2> HIDE DEF all
  <2>5. ASSUME NEW b PROVE b \in Sent' <=> b \in Sent \/ b \in more
    BY <2>2, <2>3, <2>4
  <2>6. ASSUME NEW b PROVE ~(b \in Sent /\ b \in more)
    BY <2>2, <2>4
  <2> QED
    BY <2>5, <2>6
<1>4. IsFiniteSet(more) /\ Cardinality(more) = k
  <2>1. had + 1 \in Int /\ had + k \in Int
    BY <1>1
  <2>2. /\ IsFiniteSet((had + 1)..(had + k))
        /\ Cardinality((had + 1)..(had + k))
             = IF had + 1 > had + k THEN 0 ELSE (had + k) - (had + 1) + 1
    BY <2>1, FS_Interval
  <2>3. Cardinality((had + 1)..(had + k)) = k
    BY <1>1, <2>2
  <2>4. IsFiniteSet({g}) /\ Cardinality({g}) = 1
    BY FS_Singleton
  <2>5. IsFiniteSet(more)
        /\ Cardinality(more) = Cardinality({g}) * Cardinality((had + 1)..(had + k))
    BY <2>2, <2>4, FS_Product
  <2> QED
    BY <2>3, <2>4, <2>5
<1>5. IsFiniteSet(Sent)
  BY SentFinite
<1> HIDE DEF more
<1>6. Cardinality(Sent \cup more) = Cardinality(Sent) + Cardinality(more) - Cardinality(Sent \cap more)
  BY <1>4, <1>5, FS_Union
<1>7. Cardinality(Sent \cap more) = 0 /\ Cardinality(Sent) \in Nat
  BY <1>3, <1>5, FS_EmptySet, FS_CardinalityType
<1> QED
  BY <1>3, <1>4, <1>6, <1>7 DEF SentBytes

(* Nothing is sent and nothing counted by anybody else. *)
LEMMA CountersFrame ==
    ASSUME Counters, UNCHANGED counterVars PROVE Counters'
<1>1. Sent' = Sent /\ Storing' = Storing
  BY DEF counterVars, Sent, Storing
<1>2. SentBytes' = SentBytes /\ Pending' = Pending
  BY <1>1 DEF SentBytes, Pending
<1> QED
  BY <1>1, <1>2 DEF Counters, CountersTypeOK, counterVars

(* Below the bound there is room for one more packet. *)
LEMMA OneMorePacket ==
    ASSUME NEW n \in Nat, NEW m \in Nat, NEW k \in Nat, n * k < m * k
    PROVE  n < m /\ n * k + k = (n + 1) * k /\ n * k + k <= m * k
<1>1. n < m
  <2> SUFFICES ASSUME n >= m PROVE FALSE
    OBVIOUS
  <2>1. n - m \in Nat /\ n = m + (n - m)
    OBVIOUS
  <2>2. n * k = m * k + (n - m) * k
    BY <2>1, SMT
  <2>3. (n - m) * k >= 0
    BY <2>1, SMT
  <2> QED
    BY <2>2, <2>3, SMT
<1>2. n * k + k = (n + 1) * k
  BY SMT
<1>3. m * k = (n + 1) * k + (m - (n + 1)) * k /\ (m - (n + 1)) * k >= 0
  <2>1. m - (n + 1) \in Nat
    BY <1>1
  <2> QED
    BY <2>1, SMT
<1> QED
  BY <1>1, <1>2, <1>3, SMT

(* A generator enters the addition. *)
LEMMA AddAndLoadStep ==
    ASSUME Counters, NEW g \in Generators, AddAndLoad(g) PROVE Counters'
<1> USE DEF AddAndLoad
<1>1. /\ CountersTypeOK /\ send_total \in Nat /\ SentBytes \in Nat
      /\ Pktlen \in Nat /\ MaxPackets \in Nat /\ send_total <= SentBytes
  BY SentFinite, CountersAssumption DEF Counters, CountersTypeOK
<1>2. PICK n \in 0..MaxPackets : total_send_byte[g] = n * Pktlen
  BY DEF Counters
<1>3. /\ n + 1 \in 0..MaxPackets /\ total_send_byte[g] + Pktlen = (n + 1) * Pktlen
      /\ total_send_byte[g] + Pktlen <= MaxPackets * Pktlen
  <2>1. n \in Nat /\ n * Pktlen < MaxPackets * Pktlen
    BY <1>1, <1>2
  <2>2. n < MaxPackets /\ n * Pktlen + Pktlen = (n + 1) * Pktlen
        /\ n * Pktlen + Pktlen <= MaxPackets * Pktlen
    BY <1>1, <2>1, OneMorePacket
  <2> QED
    BY <1>1, <1>2, <2>2
<1>4. SentBytes' = SentBytes + Pktlen
  BY <1>1, <1>3, SentGrows
<1>5. Storing' = Storing \cup {g} /\ g \notin Storing
  BY <1>1 DEF Storing, CountersTypeOK
<1>6. /\ total_send_byte'[g] = total_send_byte[g] + Pktlen /\ loaded'[g] = send_total
      /\ \A h \in Generators : h # g =>
           total_send_byte'[h] = total_send_byte[h] /\ loaded'[h] = loaded[h]
      /\ collided' = (collided \/ Storing # {}) /\ send_total' = send_total
  BY <1>1 DEF CountersTypeOK, Storing
<1>7. CountersTypeOK'
  <2>1. total_send_byte[g] + Pktlen \in 0..(MaxPackets * Pktlen)
    BY <1>1, <1>3 DEF CountersTypeOK
  <2>2. collided' \in BOOLEAN
    BY <1>6, <1>1 DEF CountersTypeOK
  <2> QED
    BY <1>1, <2>1, <2>2 DEF CountersTypeOK
<1>8. \A h \in Generators : \E k \in 0..MaxPackets : total_send_byte'[h] = k * Pktlen
  BY <1>3, <1>6 DEF Counters
<1> HIDE DEF AddAndLoad
<1>9. send_total' <= SentBytes' /\ \A h \in Storing' : loaded'[h] + Pktlen <= SentBytes'
  <2>1. send_total' <= SentBytes'
    BY <1>1, <1>4, <1>6
  <2>2. ASSUME NEW h \in Storing PROVE loaded'[h] + Pktlen <= SentBytes'
    <3>1. loaded[h] + Pktlen <= SentBytes /\ loaded[h] \in Nat /\ loaded'[h] = loaded[h]
      BY <1>1, <1>5, <1>6 DEF Counters, CountersTypeOK, Storing
    <3> QED
      BY <1>1, <1>4, <3>1
  <2>3. loaded'[g] + Pktlen <= SentBytes'
    BY <1>1, <1>4, <1>6
  <2> QED
    BY <1>5, <2>1, <2>2, <2>3
<1>10. ASSUME ~collided'
       PROVE  /\ \A h, i \in Storing' : h = i
              /\ \A h \in Storing' : loaded'[h] = send_total'
              /\ send_total' + Pending' = SentBytes'
  <2>1. ~collided /\ Storing = {} /\ Storing' = {g}
    BY <1>5, <1>6, <1>10
  <2>2. Pending = 0 /\ Pending' = Pktlen
    <3>1. Cardinality(Storing) = 0 /\ Cardinality(Storing') = 1
      BY <2>1, FS_EmptySet, FS_Singleton
    <3> QED
      BY <1>1, <3>1 DEF Pending
  <2>3. send_total + Pending = SentBytes
    BY <2>1 DEF Counters
  <2> QED
    BY <1>1, <1>4, <1>6, <2>1, <2>2, <2>3
<1> QED
  BY <1>7, <1>8, <1>9, <1>10 DEF Counters

(* A generator leaves it: alone, it adds what it should have added; not    *)
(* alone, it can only write less than was sent.                            *)
LEMMA StoreTotalStep ==
    ASSUME Counters, NEW g \in Generators, StoreTotal(g) PROVE Counters'
<1> USE DEF StoreTotal
<1>1. /\ CountersTypeOK /\ send_total \in Nat /\ SentBytes \in Nat
      /\ Pktlen \in Nat /\ loaded[g] \in Nat
  BY SentFinite, CountersAssumption DEF Counters, CountersTypeOK
<1>2. g \in Storing /\ Storing' = Storing \ {g}
  BY <1>1 DEF Storing, CountersTypeOK
<1>3. Sent' = Sent /\ SentBytes' = SentBytes
  BY DEF Sent, SentBytes
<1>4. CountersTypeOK'
  BY <1>1 DEF CountersTypeOK
<1>5. /\ send_total' = loaded[g] + Pktlen /\ collided' = collided
      /\ total_send_byte' = total_send_byte
      /\ \A h \in Storing' : loaded'[h] = loaded[h]
  BY <1>1, <1>2 DEF CountersTypeOK, Storing
<1> HIDE DEF StoreTotal
<1>6. send_total' <= SentBytes' /\ \A h \in Storing' : loaded'[h] + Pktlen <= SentBytes'
  BY <1>2, <1>3, <1>5 DEF Counters
<1>7. ASSUME ~collided
      PROVE  Storing' = {} /\ send_total' + Pending' = SentBytes'
  <2>1. Storing = {g} /\ Storing' = {} /\ loaded[g] = send_total
    BY <1>2, <1>7 DEF Counters
  <2>2. Pending = Pktlen /\ Pending' = 0
    <3>1. Cardinality(Storing) = 1 /\ Cardinality(Storing') = 0
      BY <2>1, FS_EmptySet, FS_Singleton
    <3> QED
      BY <1>1, <3>1 DEF Pending
  <2>3. send_total + Pending = SentBytes
    BY <1>7 DEF Counters
  <2> QED
    BY <1>1, <1>3, <1>5, <2>1, <2>2, <2>3
<1> QED
  BY <1>4, <1>5, <1>6, <1>7 DEF Counters

-----------------------------------------------------------------------------
(* What a step leaves alone. *)

(* A handler that has been created stays created, so a table that was full *)
(* stays full.                                                             *)
LEMMA RefusalStays ==
    ASSUME RefusesOnlyWhenFull, refused' = refused, listen_fd' = listen_fd,
           \A c \in Clients : handler[c] # "none" => handler'[c] # "none"
    PROVE  RefusesOnlyWhenFull'
<1> DEFINE made == {c \in Clients : handler[c] # "none"}
           made2 == {c \in Clients : handler'[c] # "none"}
<1>1. IsFiniteSet(made2) /\ made \in SUBSET made2
  BY IpcAssumption, FS_Subset
<1>2. Cardinality(made) <= Cardinality(made2) /\ IsFiniteSet(made)
  BY <1>1, FS_Subset
<1>3. Cardinality(made) \in Nat /\ Cardinality(made2) \in Nat
  BY <1>1, <1>2, FS_CardinalityType
<1>4. (refused /\ listen_fd # STDOUT) => Cardinality(made) >= MaxFd - 3
  BY DEF RefusesOnlyWhenFull
<1> HIDE DEF made, made2
<1>5. (refused /\ listen_fd # STDOUT) => Cardinality(made2) >= MaxFd - 3
  BY <1>2, <1>3, <1>4, IpcAssumption
<1> QED
  BY <1>5 DEF RefusesOnlyWhenFull, made2

(* No descriptor changes hands: the table stays as it is. *)
LEMMA TableFrame ==
    ASSUME IInv, UNCHANGED <<open, listen_fd, reloadVars, refused>>
    PROVE  Table' /\ ReloadUndisturbed'
BY DEF IInv, Table, ReloadUndisturbed, Refers, reloadVars

(* Nothing about the accept loop or who has a handler. *)
LEMMA ServerFrame ==
    ASSUME IInv, UNCHANGED <<open, server, listen_fd, com_fd, refused>>,
           \A c \in Clients : handler'[c] = "none" <=> handler[c] = "none"
    PROVE  Server' /\ RefusesOnlyWhenFull'
<1>1. RefusesOnlyWhenFull'
  BY RefusalStays DEF IInv
<1>2. Server'
  BY DEF IInv, Server, Listening, Refers
<1> QED
  BY <1>1, <1>2

(* The counters move: the rest does not. *)
LEMMA CountStep ==
    ASSUME IInv, NEW g \in Generators, Count(g),
           UNCHANGED <<socketVars, handlerVars, reloadVars, serverVars>>
    PROVE  IInv'
<1> USE DEF socketVars, handlerVars, reloadVars, serverVars
<1>1. Counters'
  BY AddAndLoadStep, StoreTotalStep DEF Count, IInv
<1>2. TypeOK'
  BY <1>1 DEF IInv, TypeOK, Counters
<1>3. Table' /\ ReloadUndisturbed'
  BY TableFrame
<1>4. Server' /\ RefusesOnlyWhenFull'
  BY ServerFrame
<1>5. Waiting' /\ HandshakeFirst'
  BY DEF IInv, Waiting, HandshakeFirst, Alive
<1>6. (~overlapped => \A c \in Clients : Mine(c))'
  BY DEF IInv, Mine, Alive, Refers
<1> QED
  BY <1>1, <1>2, <1>3, <1>4, <1>5, <1>6 DEF IInv

-----------------------------------------------------------------------------
(* The accept loop. *)

(* The listening socket gets a descriptor of its own. *)
LEMMA CreateServerStep ==
    ASSUME IInv, CreateServer PROVE IInv'
<1> USE DEF CreateServer, handlerVars, reloadVars
<1>0. PICK d \in Fds : open[d] = "free" /\ listen_fd' = d /\ open' = [open EXCEPT ![d] = "listen"]
  BY LowestFree
<1>1. Counters'
  BY CountersFrame DEF IInv
<1>2. TypeOK'
  BY <1>0, <1>1 DEF IInv, TypeOK, Counters, Things
<1>3. open \in [Fds -> Things] /\ \A e \in Fds : open'[e] = IF e = d THEN "listen" ELSE open[e]
  BY <1>0 DEF IInv, TypeOK
<1>a. UNCHANGED <<counterVars, backlog, client, inbox, reply, handler, fd, reload, file_fd,
                  com_fd, overlapped, refused>> /\ server = "create" /\ server' = "accept"
  OBVIOUS
<1> HIDE DEF CreateServer
<1>4. Table'
  <2>1. \A e \in Fds : open[e] # "listen"
    BY <1>a DEF IInv, Server
  <2> QED
    BY <1>0, <1>3, <1>a, <2>1, FdFacts DEF IInv, Table
<1>5. ReloadUndisturbed'
  BY <1>0, <1>3, <1>a DEF IInv, ReloadUndisturbed, Refers
<1>6. Server'
  BY <1>0, <1>3, <1>a, FdFacts DEF IInv, Server, Listening, Refers
<1>7. RefusesOnlyWhenFull'
  BY <1>a DEF IInv, Server, RefusesOnlyWhenFull
<1>8. Waiting' /\ HandshakeFirst'
  BY <1>3, <1>a, FdFacts DEF IInv, Waiting, HandshakeFirst, Alive, TypeOK
<1>9. (~overlapped => \A c \in Clients : Mine(c))'
  BY <1>0, <1>3, <1>a, FdFacts DEF IInv, Mine, Alive, Refers
<1> QED
  BY <1>1, <1>2, <1>4, <1>5, <1>6, <1>7, <1>8, <1>9 DEF IInv

(* Without one, accept is called on stdout. *)
LEMMA CreateServerFailsStep ==
    ASSUME IInv, CreateServerFails PROVE IInv'
<1> USE DEF CreateServerFails, socketVars, handlerVars, reloadVars
<1>1. Counters'
  BY CountersFrame DEF IInv
<1>2. TypeOK'
  BY <1>1, FdFacts DEF IInv, TypeOK, Counters
<1>3. Table' /\ ReloadUndisturbed'
  <2>1. \A e \in Fds : open[e] # "listen"
    BY DEF IInv, Server
  <2> QED
    BY <2>1 DEF IInv, Table, ReloadUndisturbed, Refers
<1>4. Server'
  BY DEF IInv, Server, Listening, Refers
<1>5. RefusesOnlyWhenFull'
  BY DEF IInv, Server, RefusesOnlyWhenFull
<1>6. Waiting' /\ HandshakeFirst'
  BY DEF IInv, Waiting, HandshakeFirst, Alive
<1>7. (~overlapped => \A c \in Clients : Mine(c))'
  BY DEF IInv, Mine, Alive, Refers
<1> QED
  BY <1>1, <1>2, <1>3, <1>4, <1>5, <1>6, <1>7 DEF IInv

(* The head of the backlog gets a descriptor that nobody has. *)
LEMMA AcceptStep ==
    ASSUME IInv, Accept PROVE IInv'
<1> USE DEF Accept, handlerVars, reloadVars
<1> DEFINE p == Head(backlog)
<1>0. PICK d \in Fds : open[d] = "free" /\ com_fd' = d /\ open' = [open EXCEPT ![d] = p]
  BY LowestFree
<1>1. Counters'
  BY CountersFrame DEF IInv
<1>b. backlog \in Seq(Clients) /\ backlog # <<>> /\ backlog' = Tail(backlog)
  BY DEF IInv, TypeOK
<1>c. /\ p \in Clients /\ p = backlog[1] /\ 1 \in DOMAIN backlog
      /\ backlog' \in Seq(Clients)
      /\ \A i \in DOMAIN backlog' : i + 1 \in DOMAIN backlog /\ backlog'[i] = backlog[i + 1]
                                    /\ i \in Nat /\ i + 1 # 1
  BY <1>b
<1>d. handler[p] = "none" /\ \A e \in Fds : open[e] # p
  BY <1>c DEF IInv, Waiting
<1>e. \A i \in DOMAIN backlog' : backlog'[i] # p
  BY <1>c DEF IInv, Waiting
<1>f. client[p] # "new"
  BY <1>c DEF IInv, Waiting
<1> HIDE DEF p
<1>2. TypeOK'
  BY <1>0, <1>1, <1>c DEF IInv, TypeOK, Counters, Things
<1>3. open \in [Fds -> Things] /\ \A e \in Fds : open'[e] = IF e = d THEN p ELSE open[e]
  BY <1>0 DEF IInv, TypeOK
<1>a. UNCHANGED <<client, inbox, reply, handler, fd, reload, file_fd, listen_fd, refused>>
      /\ server = "accept" /\ server' = "spawn" /\ overlapped' = (overlapped \/ Starting)
      /\ Listening
  OBVIOUS
<1> HIDE DEF Accept
<1>4. Table'
  <2>1. \A e \in Fds : e # d => open'[e] # open'[d]
    BY <1>3, <1>d
  <2> QED
    BY <1>0, <1>3, <1>a, <1>c, <2>1, FdFacts DEF IInv, Table
<1>5. ReloadUndisturbed'
  BY <1>0, <1>3, <1>a DEF IInv, ReloadUndisturbed, Refers
<1>6. Server'
  <2>1. listen_fd # d
    BY <1>0, <1>a DEF Listening, Refers
  <2>2. \A e \in Fds : open[e] \in Clients => handler[open[e]] # "none"
    BY <1>a DEF IInv, Server
  <2> QED
    BY <1>0, <1>3, <1>a, <1>c, <1>d, <2>1, <2>2 DEF IInv, Server, Listening, Refers
<1>7. RefusesOnlyWhenFull'
  BY <1>a, RefusalStays DEF IInv
<1>8. Waiting' /\ HandshakeFirst'
  <2>1. HandshakeFirst'
    BY <1>a DEF IInv, HandshakeFirst, Alive
  <2>2. \A i, j \in DOMAIN backlog' : backlog'[i] = backlog'[j] => i = j
    BY <1>c DEF IInv, Waiting
  <2>3. \A i \in DOMAIN backlog' : \A e \in Fds : open'[e] # backlog'[i]
    BY <1>3, <1>c, <1>e DEF IInv, Waiting
  <2>4. \A i \in DOMAIN backlog' : handler'[backlog'[i]] = "none"
    BY <1>a, <1>c DEF IInv, Waiting
  <2>5. ASSUME NEW c \in Clients, client'[c] = "new"
        PROVE  /\ handler'[c] = "none" /\ inbox'[c] = <<>> /\ \A e \in Fds : open'[e] # c
               /\ \A i \in DOMAIN backlog' : backlog'[i] # c
    BY <1>3, <1>a, <1>c, <1>f, <2>5 DEF IInv, Waiting
  <2>6. \A c \in Clients : reply'[c] /\ Alive(c)' => client'[c] = "stream"
    BY <1>a DEF IInv, Waiting, Alive
  <2> QED
    BY <2>1, <2>2, <2>3, <2>4, <2>5, <2>6 DEF Waiting
<1>9. (~overlapped => \A c \in Clients : Mine(c))'
  <2>1. SUFFICES ASSUME ~overlapped', NEW c \in Clients PROVE Mine(c)'
    OBVIOUS
  <2>2. Mine(c) /\ handler[c] # "start"
    BY <1>a, <2>1 DEF IInv, Starting
  <2>3. \A e : Refers(e, c) => Refers(e, c)'
    BY <1>0, <1>3, FdFacts DEF Refers
  <2> QED
    BY <1>a, <2>2, <2>3 DEF Mine, Alive
<1> QED
  BY <1>1, <1>2, <1>4, <1>5, <1>6, <1>7, <1>8, <1>9 DEF IInv

(* A set loses at most one element with one name. *)
LEMMA LoseOne ==
    ASSUME NEW S, IsFiniteSet(S), NEW x
    PROVE  IsFiniteSet(S \ {x}) /\ Cardinality(S \ {x}) >= Cardinality(S) - 1
<1>1. Cardinality(S) \in Nat
  BY FS_CardinalityType
<1>2. IsFiniteSet(S \ {x})
  BY FS_RemoveElement
<1>3. CASE x \in S
  BY <1>1, <1>2, <1>3, FS_RemoveElement
<1>4. CASE x \notin S
  <2>1. S \ {x} = S
    BY <1>4
  <2> QED
    BY <1>1, <1>2, <2>1
<1> QED
  BY <1>2, <1>3, <1>4

(* A table without a free descriptor holds stdout, the listening socket,   *)
(* the configuration file and one descriptor for each handler.             *)
LEMMA FullTable ==
    ASSUME IInv, FreeFds = {}, server = "accept"
    PROVE  Cardinality({c \in Clients : handler[c] # "none"}) >= MaxFd - 3
<1> DEFINE made == {c \in Clients : handler[c] # "none"}
           s1 == Fds \ {STDOUT}
           s2 == s1 \ {listen_fd}
           s3 == s2 \ {file_fd}
           f == [d \in s3 |-> open[d]]
<1>1. IsFiniteSet(Fds) /\ Cardinality(Fds) = MaxFd /\ MaxFd \in Nat
  BY FdFacts, IpcAssumption
<1>2. IsFiniteSet(s1) /\ Cardinality(s1) >= Cardinality(Fds) - 1
  BY <1>1, LoseOne
<1>3. IsFiniteSet(s2) /\ Cardinality(s2) >= Cardinality(s1) - 1
  BY <1>2, LoseOne
<1>4. IsFiniteSet(s3) /\ Cardinality(s3) >= Cardinality(s2) - 1
  BY <1>3, LoseOne
<1>5. \A d \in s3 : d \in Fds /\ open[d] \in made
  <2> TAKE d \in s3
  <2>1. open[d] \in Things /\ open[d] # "free"
    BY DEF IInv, TypeOK, FreeFds
  <2>2. open[d] \in Clients
    BY <2>1 DEF IInv, Table, Things
  <2> QED
    BY <2>2 DEF IInv, Server
<1>6. \A d, e \in s3 : open[d] = open[e] => d = e
  BY <1>5 DEF IInv, Table
<1>7. IsFiniteSet(made)
  BY IpcAssumption, FS_Subset
<1> HIDE DEF made, s3
<1>8. f \in Injection(s3, made)
  BY <1>5, <1>6 DEF Injection, IsInjective
<1>9. Cardinality(s3) <= Cardinality(made)
  BY <1>7, <1>8, FS_Injection
<1>10. /\ Cardinality(s1) \in Nat /\ Cardinality(s2) \in Nat
       /\ Cardinality(s3) \in Nat /\ Cardinality(made) \in Nat
  BY <1>2, <1>3, <1>4, <1>7, FS_CardinalityType
<1> HIDE DEF s1, s2
<1>11. Cardinality(made) >= MaxFd - 3
  BY <1>1, <1>2, <1>3, <1>4, <1>9, <1>10
<1> QED
  BY <1>11 DEF made

(* The first refusal finds the table full. *)
LEMMA AcceptFailsStep ==
    ASSUME IInv, AcceptFails PROVE IInv'
<1> USE DEF AcceptFails, socketVars, handlerVars, reloadVars
<1>1. Counters'
  BY CountersFrame DEF IInv
<1>2. TypeOK'
  BY <1>1 DEF IInv, TypeOK, Counters
<1>3. Table' /\ ReloadUndisturbed'
  BY DEF IInv, Table, ReloadUndisturbed, Refers
<1>4. Server'
  BY DEF IInv, Server, Listening, Refers
<1>5. RefusesOnlyWhenFull'
  <2>1. CASE refused
    BY <2>1, RefusalStays DEF IInv
  <2>2. CASE ~refused /\ listen_fd # STDOUT
    <3>1. Listening
      BY <2>2 DEF IInv, Server
    <3>2. Cardinality({c \in Clients : handler[c] # "none"}) >= MaxFd - 3
      BY <3>1, FullTable
    <3> QED
      BY <3>2 DEF RefusesOnlyWhenFull
  <2>3. CASE listen_fd = STDOUT
    BY <2>3 DEF RefusesOnlyWhenFull
  <2> QED
    BY <2>1, <2>2, <2>3
<1>6. Waiting' /\ HandshakeFirst'
  BY DEF IInv, Waiting, HandshakeFirst, Alive
<1>7. (~overlapped => \A c \in Clients : Mine(c))'
  BY DEF IInv, Mine, Alive, Refers, Starting
<1> QED
  BY <1>1, <1>2, <1>3, <1>4, <1>5, <1>6, <1>7 DEF IInv

(* close(listen_fd) ends the waiting connections, and takes away whatever  *)
(* descriptor has that number by now - but never that of a client.         *)
LEMMA CloseListenerStep ==
    ASSUME IInv, CloseListener PROVE IInv'
<1> USE DEF CloseListener, Close, handlerVars, reloadVars
<1>1. Counters'
  BY CountersFrame DEF IInv
<1>0. refused /\ \A c \in Clients : ~Refers(listen_fd, c)
  BY FdFacts DEF IInv, Server, Refers
<1>a. /\ UNCHANGED <<counterVars, inbox, reply, handler, fd, reload, file_fd, listen_fd,
                     com_fd, overlapped, refused>>
      /\ server = "close" /\ server' = "accept"
  OBVIOUS
<1>b. open \in [Fds -> Things]
      /\ \A e \in Fds : open'[e] = IF e = listen_fd THEN "free" ELSE open[e]
  BY DEF IInv, TypeOK
<1>c. backlog' = <<>> \/ backlog' = backlog
  OBVIOUS
<1>d. \A c \in Clients : client'[c] = client[c] \/
        (client'[c] = "gone" /\ Refers(listen_fd, "listen") /\ \E i \in DOMAIN backlog : backlog[i] = c)
  BY <1>0
<1>e. \A c \in Clients : client'[c] \in {client[c], "gone"}
  BY <1>d
<1>2. TypeOK'
  <2>1. client' \in [Clients -> {"new", "sync", "answer", "stream", "gone"}]
    BY DEF IInv, TypeOK
  <2>2. open' \in [Fds -> Things]
    BY DEF IInv, TypeOK, Things
  <2>3. backlog' \in Seq(Clients)
    BY <1>c DEF IInv, TypeOK
  <2> HIDE DEF CloseListener, Close
  <2> QED
    BY <1>1, <1>a, <2>1, <2>2, <2>3 DEF IInv, TypeOK, Counters
<1> HIDE DEF CloseListener, Close
<1>3. Table' /\ ReloadUndisturbed'
  BY <1>0, <1>a, <1>b, FdFacts DEF IInv, Table, ReloadUndisturbed
<1>4. Server'
  BY <1>0, <1>a, <1>b, FdFacts DEF IInv, Server
<1>5. RefusesOnlyWhenFull'
  BY <1>a, RefusalStays DEF IInv
<1>6. Waiting'
  <2>1. \A c \in Clients : client'[c] = "new" => client[c] = "new"
    BY <1>e
  <2>2. \A c \in Clients, e \in Fds : open'[e] = c => open[e] = c
    BY <1>b, FdFacts
  <2>3. \A i \in DOMAIN backlog' : i \in DOMAIN backlog /\ backlog'[i] = backlog[i]
                                    /\ backlog[i] \in Clients
    BY <1>c DEF IInv, TypeOK
  <2>4. \A c \in Clients : Alive(c)' => client'[c] = client[c] /\ Alive(c)
    BY <1>e DEF Alive
  <2> QED
    BY <1>a, <2>1, <2>2, <2>3, <2>4 DEF IInv, Waiting
<1>7. HandshakeFirst'
  <2>1. \A c \in Clients : Alive(c)' => client'[c] = client[c] /\ Alive(c)
    BY <1>e DEF Alive
  <2> QED
    BY <1>a, <2>1 DEF IInv, HandshakeFirst
<1>8. (~overlapped => \A c \in Clients : Mine(c))'
  <2>1. SUFFICES ASSUME ~overlapped, NEW c \in Clients PROVE Mine(c)'
    BY <1>a
  <2>2. \A e : Refers(e, c) => Refers(e, c)'
    BY <1>0, <1>b DEF Refers
  <2>3. Mine(c)
    BY <2>1 DEF IInv
  <2> QED
    BY <1>a, <1>e, <2>2, <2>3 DEF Mine, Alive
<1> QED
  BY <1>1, <1>2, <1>3, <1>4, <1>5, <1>6, <1>7, <1>8 DEF IInv

(* pthread_create gives the accepted connection, and no other, a handler. *)
LEMMA SpawnStep ==
    ASSUME IInv, Spawn PROVE IInv'
<1> USE DEF Spawn, socketVars, reloadVars
<1>1. Counters'
  BY CountersFrame DEF IInv
<1>0. PICK p \in Clients : com_fd \in Fds /\ open[com_fd] = p /\ handler[p] = "none"
  BY DEF IInv, Server
<1>b. \A c \in Clients : handler'[c] = IF c = p THEN "start" ELSE handler[c]
  BY <1>0 DEF Created, Refers
<1>2. TypeOK'
  BY <1>1 DEF IInv, TypeOK, Counters
<1>a. UNCHANGED <<counterVars, open, backlog, client, inbox, reply, fd, reload, file_fd,
                  listen_fd, com_fd, overlapped, refused>>
      /\ server = "spawn" /\ server' = "accept"
  OBVIOUS
<1> HIDE DEF Spawn
<1>3. Table' /\ ReloadUndisturbed'
  BY <1>a, TableFrame
<1>4. Server'
  BY <1>0, <1>a, <1>b DEF IInv, Server, Table, Listening, Refers
<1>5. RefusesOnlyWhenFull'
  BY <1>a, <1>b, RefusalStays DEF IInv
<1>6. Waiting'
  BY <1>0, <1>a, <1>b DEF IInv, Waiting, Alive, TypeOK
<1>7. HandshakeFirst'
  BY <1>a DEF IInv, HandshakeFirst, Alive
<1>8. (~overlapped => \A c \in Clients : Mine(c))'
  BY <1>0, <1>a, <1>b DEF IInv, Mine, Alive, Refers
<1> QED
  BY <1>1, <1>2, <1>3, <1>4, <1>5, <1>6, <1>7, <1>8 DEF IInv

-----------------------------------------------------------------------------
(* A handler. *)

(* Without an overlap, com_fd still holds the handler's own connection. *)
LEMMA ReadFdStep ==
    ASSUME IInv, NEW c \in Clients, ReadFd(c) PROVE IInv'
<1> USE DEF ReadFd, Go, socketVars, reloadVars, serverVars
<1>1. Counters'
  BY CountersFrame DEF IInv
<1>2. TypeOK'
  BY <1>1 DEF IInv, TypeOK, Counters
<1>0. /\ handler[c] = "start" /\ handler'[c] = "greet" /\ fd'[c] = com_fd
      /\ \A d \in Clients : d # c => handler'[d] = handler[d] /\ fd'[d] = fd[d]
  BY DEF IInv, TypeOK
<1>3. Table' /\ ReloadUndisturbed'
  BY TableFrame
<1>4. Server' /\ RefusesOnlyWhenFull'
  BY <1>0, ServerFrame
<1>5. Waiting' /\ HandshakeFirst'
  BY <1>0 DEF IInv, Waiting, HandshakeFirst, Alive, TypeOK
<1>6. (~overlapped => \A d \in Clients : Mine(d))'
  BY <1>0 DEF IInv, Mine, Alive, Refers
<1> QED
  BY <1>1, <1>2, <1>3, <1>4, <1>5, <1>6 DEF IInv

(* What a handler writes to is its own client, without an overlap. *)
LEMMA OwnPeer ==
    ASSUME IInv, ~overlapped, NEW c \in Clients, handler[c] \in {"greet", "read", "write"}
    PROVE  /\ \A p \in Peer(fd[c]) : p = c
           /\ Alive(c) => c \in Peer(fd[c])
BY DEF IInv, Mine, Peer, Refers

(* The first thing a client receives is SYN_REQ. *)
LEMMA GreetStep ==
    ASSUME IInv, NEW c \in Clients, Greet(c) PROVE IInv'
<1> USE DEF Greet, Go, reloadVars, serverVars
<1>1. Counters'
  BY CountersFrame DEF IInv
<1>0. /\ handler[c] = "greet" /\ handler'[c] = "read"
      /\ \A d \in Clients : d # c => handler'[d] = handler[d]
  BY DEF IInv, TypeOK
<1>a. UNCHANGED <<counterVars, open, backlog, client, reply, fd, reload, file_fd,
                  server, listen_fd, com_fd, overlapped, refused>>
  OBVIOUS
<1>b. \/ \E p \in Peer(fd[c]) : Room(p) /\ Send(p, SYN_REQ)
      \/ Peer(fd[c]) = {} /\ inbox' = inbox
  OBVIOUS
<1>c. handler' \in [Clients -> {"none", "start", "greet", "read", "write", "done"}]
  BY DEF IInv, TypeOK
<1> HIDE DEF Greet
<1>2. TypeOK'
  <2>1. CASE inbox' = inbox
    BY <1>1, <1>a, <1>c, <2>1 DEF IInv, TypeOK, Counters
  <2>2. ASSUME NEW p \in Peer(fd[c]), Room(p), Send(p, SYN_REQ) PROVE TypeOK'
    <3>1. p \in Clients /\ inbox[p] \in Seq(Nat \cup {SYN_REQ}) /\ Len(inbox[p]) < SocketBuffer
      BY <2>2 DEF IInv, TypeOK, Peer, Room
    <3>2. /\ Append(inbox[p], SYN_REQ) \in Seq(Nat \cup {SYN_REQ})
          /\ Len(Append(inbox[p], SYN_REQ)) = Len(inbox[p]) + 1
          /\ Len(inbox[p]) + 1 <= SocketBuffer
      BY <3>1, IpcAssumption
    <3>3. inbox' \in [Clients -> Seq(Nat \cup {SYN_REQ})]
          /\ \A q \in Clients : Len(inbox'[q]) <= SocketBuffer
      BY <2>2, <3>1, <3>2 DEF IInv, TypeOK, Send
    <3> QED
      BY <1>1, <1>a, <1>c, <3>3 DEF IInv, TypeOK, Counters
  <2> QED
    BY <1>b, <2>1, <2>2
<1>3. Table' /\ ReloadUndisturbed'
  BY <1>a, TableFrame
<1>4. Server' /\ RefusesOnlyWhenFull'
  BY <1>0, <1>a, ServerFrame
<1>5. Waiting'
  <2>1. \A q \in Clients : client[q] = "new" => \A e \in Fds : open[e] # q
    BY DEF IInv, Waiting
  <2>2. \A p \in Peer(fd[c]) : p \in Clients /\ client[p] # "new"
    BY <2>1 DEF Peer, Refers
  <2>3. \A q \in Clients : client[q] = "new" => inbox'[q] = inbox[q]
    BY <1>b, <2>2 DEF Send, IInv, TypeOK
  <2> QED
    BY <1>0, <1>a, <2>3 DEF IInv, Waiting, Alive, TypeOK
<1>6. ~overlapped =>
        /\ \A d \in Clients : d # c => inbox'[d] = inbox[d]
        /\ Alive(c) => inbox[c] = <<>> /\ inbox'[c] = <<SYN_REQ>> /\ client[c] = "sync"
  <2> SUFFICES ASSUME ~overlapped
               PROVE  /\ \A d \in Clients : d # c => inbox'[d] = inbox[d]
                      /\ Alive(c) => inbox[c] = <<>> /\ inbox'[c] = <<SYN_REQ>>
                                     /\ client[c] = "sync"
    OBVIOUS
  <2>1. (\A p \in Peer(fd[c]) : p = c) /\ (Alive(c) => c \in Peer(fd[c]))
    BY <1>0, OwnPeer
  <2>2. \A d \in Clients : d # c => inbox'[d] = inbox[d]
    BY <1>b, <2>1 DEF Send, IInv, TypeOK
  <2>3. ASSUME Alive(c)
        PROVE  inbox[c] = <<>> /\ inbox'[c] = <<SYN_REQ>> /\ client[c] = "sync"
    <3>1. inbox[c] = <<>> /\ client[c] \in {"new", "sync"}
      BY <1>0, <2>3 DEF IInv, Mine, Alive
    <3>2. client[c] # "new"
      BY <1>0 DEF IInv, Waiting
    <3>3. inbox' = [inbox EXCEPT ![c] = Append(@, SYN_REQ)]
      BY <1>b, <2>1, <2>3 DEF Send
    <3>4. inbox'[c] = Append(<<>>, SYN_REQ)
      BY <3>1, <3>3 DEF IInv, TypeOK
    <3> QED
      BY <3>1, <3>2, <3>4
  <2> QED
    BY <2>2, <2>3
<1>7. HandshakeFirst'
  BY <1>a, <1>6 DEF IInv, HandshakeFirst, Alive
<1>8. (~overlapped => \A d \in Clients : Mine(d))'
  BY <1>0, <1>a, <1>6 DEF IInv, Mine, Alive, Refers
<1> QED
  BY <1>1, <1>2, <1>3, <1>4, <1>5, <1>7, <1>8 DEF IInv

(* The handler has waited for its client's answer. *)
LEMMA ReadReplyStep ==
    ASSUME IInv, NEW c \in Clients, ReadReply(c) PROVE IInv'
<1> USE DEF ReadReply, Go, reloadVars, serverVars
<1>1. Counters'
  BY CountersFrame DEF IInv
<1>2. TypeOK'
  <2>1. reply' \in [Clients -> BOOLEAN]
    BY DEF IInv, TypeOK
  <2> QED
    BY <1>1, <2>1 DEF IInv, TypeOK, Counters
<1>0. /\ handler[c] = "read" /\ handler'[c] = "write"
      /\ \A d \in Clients : d # c => handler'[d] = handler[d]
      /\ \A d \in Clients : reply'[d] => reply[d]
      /\ \A p \in Peer(fd[c]) : reply[p]
  BY DEF IInv, TypeOK
<1>a. UNCHANGED <<counterVars, open, backlog, client, inbox, fd, reload, file_fd,
                  server, listen_fd, com_fd, overlapped, refused>>
  OBVIOUS
<1> HIDE DEF ReadReply
<1>3. Table' /\ ReloadUndisturbed'
  BY <1>a, TableFrame
<1>4. Server' /\ RefusesOnlyWhenFull'
  BY <1>0, <1>a, ServerFrame
<1>5. Waiting' /\ HandshakeFirst'
  BY <1>0, <1>a DEF IInv, Waiting, HandshakeFirst, Alive, TypeOK
<1>6. ~overlapped /\ Alive(c) => client[c] = "stream"
  BY <1>0, OwnPeer DEF IInv, Waiting
<1>7. (~overlapped => \A d \in Clients : Mine(d))'
  BY <1>0, <1>a, <1>6 DEF IInv, Mine, Alive, Refers
<1> QED
  BY <1>1, <1>2, <1>3, <1>4, <1>5, <1>7 DEF IInv

(* A record goes to a client that has answered, without an overlap. *)
LEMMA SendRecordStep ==
    ASSUME IInv, NEW c \in Clients, SendRecord(c) PROVE IInv'
<1> USE DEF SendRecord, handlerVars, reloadVars, serverVars
<1>1. Counters'
  BY CountersFrame DEF IInv
<1>0. PICK p \in Peer(fd[c]) : Room(p) /\ inbox' = [inbox EXCEPT ![p] = Append(@, send_total)]
  BY DEF Send
<1>a. UNCHANGED <<counterVars, open, backlog, client, reply, handler, fd, reload, file_fd,
                  server, listen_fd, com_fd, overlapped, refused>> /\ handler[c] = "write"
  OBVIOUS
<1> HIDE DEF SendRecord
<1>b. /\ p \in Clients /\ inbox[p] \in Seq(Nat \cup {SYN_REQ}) /\ Len(inbox[p]) < SocketBuffer
      /\ send_total \in Nat
  BY <1>0 DEF IInv, TypeOK, Peer, Room, Counters, CountersTypeOK
<1>c. /\ Append(inbox[p], send_total) \in Seq(Nat \cup {SYN_REQ})
      /\ Len(Append(inbox[p], send_total)) = Len(inbox[p]) + 1
      /\ Len(inbox[p]) + 1 <= SocketBuffer
  BY <1>b, IpcAssumption
<1>2. TypeOK'
  <2>1. inbox' \in [Clients -> Seq(Nat \cup {SYN_REQ})]
        /\ \A q \in Clients : Len(inbox'[q]) <= SocketBuffer
    BY <1>0, <1>b, <1>c DEF IInv, TypeOK
  <2> QED
    BY <1>1, <1>a, <2>1 DEF IInv, TypeOK, Counters
<1>3. Table' /\ ReloadUndisturbed'
  BY <1>a, TableFrame
<1>4. Server' /\ RefusesOnlyWhenFull'
  BY <1>a, ServerFrame
<1>5. Waiting'
  <2>1. client[p] # "new"
    <3>1. fd[c] \in Fds /\ open[fd[c]] = p
      BY DEF Peer, Refers
    <3> QED
      BY <1>b, <3>1 DEF IInv, Waiting
  <2>2. \A q \in Clients : client[q] = "new" => inbox'[q] = inbox[q]
    BY <1>0, <1>b, <2>1 DEF IInv, TypeOK
  <2> QED
    BY <1>a, <2>2 DEF IInv, Waiting, Alive
<1>6. ~overlapped => p = c /\ client[c] = "stream"
  BY <1>a, OwnPeer DEF IInv, Mine, Peer
<1>7. \A q \in Clients : q # p => inbox'[q] = inbox[q]
  BY <1>0, <1>b DEF IInv, TypeOK
<1>8. HandshakeFirst'
  <2>1. SUFFICES ASSUME ~overlapped
                 PROVE  \A i \in DOMAIN inbox'[c] : inbox'[c][i] # SYN_REQ
    BY <1>6, <1>7, <1>a DEF IInv, HandshakeFirst, Alive
  <2>2. \A i \in DOMAIN inbox[c] : inbox[c][i] # SYN_REQ
    BY <1>6, <2>1 DEF IInv, HandshakeFirst, Alive
  <2>3. send_total # SYN_REQ
    BY <1>b DEF SYN_REQ
  <2>4. inbox'[c] = Append(inbox[c], send_total) /\ inbox[c] \in Seq(Nat \cup {SYN_REQ})
    BY <1>0, <1>b, <1>6, <2>1 DEF IInv, TypeOK
  <2> QED
    BY <1>b, <2>2, <2>3, <2>4
<1>9. (~overlapped => \A d \in Clients : Mine(d))'
  BY <1>a, <1>6, <1>7 DEF IInv, Mine, Alive, Refers
<1> QED
  BY <1>1, <1>2, <1>3, <1>4, <1>5, <1>8, <1>9 DEF IInv

(* A handler whose client has gone ends; its descriptor stays. *)
LEMMA WriteFailsStep ==
    ASSUME IInv, NEW c \in Clients, WriteFails(c) PROVE IInv'
<1> USE DEF WriteFails, Go, socketVars, reloadVars, serverVars
<1>1. Counters'
  BY CountersFrame DEF IInv
<1>2. TypeOK'
  BY <1>1 DEF IInv, TypeOK, Counters
<1>0. /\ handler[c] = "write" /\ handler'[c] = "done"
      /\ \A d \in Clients : d # c => handler'[d] = handler[d]
  BY DEF IInv, TypeOK
<1>3. Table' /\ ReloadUndisturbed'
  BY TableFrame
<1>4. Server' /\ RefusesOnlyWhenFull'
  BY <1>0, ServerFrame
<1>5. Waiting' /\ HandshakeFirst'
  BY <1>0 DEF IInv, Waiting, HandshakeFirst, Alive, TypeOK
<1>6. (~overlapped => \A d \in Clients : Mine(d))'
  BY <1>0 DEF IInv, Mine, Alive, Refers
<1> QED
  BY <1>1, <1>2, <1>3, <1>4, <1>5, <1>6 DEF IInv

-----------------------------------------------------------------------------
(* A client. *)

(* A new client joins the end of the backlog. *)
LEMMA ConnectStep ==
    ASSUME IInv, NEW c \in Clients, Connect(c) PROVE IInv'
<1> USE DEF Connect, Move, handlerVars, reloadVars, serverVars
<1>1. Counters'
  BY CountersFrame DEF IInv
<1>a. UNCHANGED <<counterVars, open, inbox, reply, handler, fd, reload, file_fd,
                  server, listen_fd, com_fd, overlapped, refused>>
  OBVIOUS
<1>b. backlog \in Seq(Clients) /\ backlog' = Append(backlog, c)
  BY DEF IInv, TypeOK
<1>c. /\ client[c] = "new" /\ client'[c] = "sync"
      /\ \A d \in Clients : d # c => client'[d] = client[d]
      /\ client' \in [Clients -> {"new", "sync", "answer", "stream", "gone"}]
  BY DEF IInv, TypeOK
<1> HIDE DEF Connect
<1>d. /\ backlog' \in Seq(Clients) /\ Len(backlog) \in Nat
      /\ \A i \in DOMAIN backlog' :
           \/ i = Len(backlog) + 1 /\ backlog'[i] = c
           \/ i \in DOMAIN backlog /\ backlog'[i] = backlog[i] /\ backlog[i] \in Clients
  BY <1>b
<1>2. TypeOK'
  BY <1>1, <1>a, <1>c, <1>d DEF IInv, TypeOK, Counters
<1>3. Table' /\ ReloadUndisturbed'
  BY <1>a, TableFrame
<1>4. Server' /\ RefusesOnlyWhenFull'
  BY <1>a, ServerFrame
<1>e. /\ handler[c] = "none" /\ inbox[c] = <<>> /\ \A d \in Fds : open[d] # c
      /\ \A i \in DOMAIN backlog : backlog[i] # c
  BY <1>c DEF IInv, Waiting
<1>5. Waiting'
  <2>1. \A i, j \in DOMAIN backlog' : backlog'[i] = backlog'[j] => i = j
    BY <1>d, <1>e DEF IInv, Waiting
  <2>2. \A i \in DOMAIN backlog' : handler'[backlog'[i]] = "none"
    BY <1>a, <1>d, <1>e DEF IInv, Waiting
  <2>3. \A i \in DOMAIN backlog' : \A d \in Fds : open'[d] # backlog'[i]
    BY <1>a, <1>d, <1>e DEF IInv, Waiting
  <2>4. ASSUME NEW q \in Clients, client'[q] = "new"
        PROVE  /\ handler'[q] = "none" /\ inbox'[q] = <<>> /\ \A d \in Fds : open'[d] # q
               /\ \A i \in DOMAIN backlog' : backlog'[i] # q
    BY <1>a, <1>c, <1>d, <2>4 DEF IInv, Waiting
  <2>5. \A q \in Clients : reply'[q] /\ Alive(q)' => client'[q] = "stream"
    BY <1>a, <1>c DEF IInv, Waiting, Alive
  <2> QED
    BY <2>1, <2>2, <2>3, <2>4, <2>5 DEF Waiting
<1>6. HandshakeFirst'
  BY <1>a, <1>c DEF IInv, HandshakeFirst, Alive
<1>7. (~overlapped => \A d \in Clients : Mine(d))'
  BY <1>a, <1>c DEF IInv, Mine, Alive, Refers
<1> QED
  BY <1>1, <1>2, <1>3, <1>4, <1>5, <1>6, <1>7 DEF IInv

(* Nobody listens: the client gives up. *)
LEMMA ConnectFailsStep ==
    ASSUME IInv, NEW c \in Clients, ConnectFails(c) PROVE IInv'
<1> USE DEF ConnectFails, Move, handlerVars, reloadVars, serverVars
<1>1. Counters'
  BY CountersFrame DEF IInv
<1>2. TypeOK'
  BY <1>1 DEF IInv, TypeOK, Counters
<1>a. UNCHANGED <<counterVars, open, backlog, inbox, reply, handler, fd, reload, file_fd,
                  server, listen_fd, com_fd, overlapped, refused>>
  OBVIOUS
<1>c. /\ client[c] = "new" /\ client'[c] = "gone"
      /\ \A d \in Clients : d # c => client'[d] = client[d]
  BY DEF IInv, TypeOK
<1> HIDE DEF ConnectFails
<1>3. Table' /\ ReloadUndisturbed'
  BY <1>a, TableFrame
<1>4. Server' /\ RefusesOnlyWhenFull'
  BY <1>a, ServerFrame
<1>5. Waiting'
  BY <1>a, <1>c DEF IInv, Waiting, Alive
<1>6. HandshakeFirst'
  BY <1>a, <1>c DEF IInv, HandshakeFirst, Alive
<1>7. (~overlapped => \A d \in Clients : Mine(d))'
  BY <1>a, <1>c DEF IInv, Mine, Alive, Refers
<1> QED
  BY <1>1, <1>2, <1>3, <1>4, <1>5, <1>6, <1>7 DEF IInv

(* The client takes the first message, which without an overlap is the     *)
(* one SYN_REQ of its handler.                                             *)
LEMMA ReadSyncStep ==
    ASSUME IInv, NEW c \in Clients, ReadSync(c) PROVE IInv'
<1> USE DEF ReadSync, Move, handlerVars, reloadVars, serverVars
<1>1. Counters'
  BY CountersFrame DEF IInv
<1>a. UNCHANGED <<counterVars, open, backlog, reply, handler, fd, reload, file_fd,
                  server, listen_fd, com_fd, overlapped, refused>>
  OBVIOUS
<1>b. /\ client[c] = "sync" /\ inbox[c] # <<>> /\ inbox[c] \in Seq(Nat \cup {SYN_REQ})
      /\ client'[c] = (IF Head(inbox[c]) = SYN_REQ THEN "answer" ELSE "gone")
      /\ inbox'[c] = Tail(inbox[c])
      /\ \A d \in Clients : d # c => client'[d] = client[d] /\ inbox'[d] = inbox[d]
      /\ client' \in [Clients -> {"new", "sync", "answer", "stream", "gone"}]
  BY DEF IInv, TypeOK
<1>c. Tail(inbox[c]) \in Seq(Nat \cup {SYN_REQ}) /\ Len(Tail(inbox[c])) <= SocketBuffer
  <2>1. Len(inbox[c]) <= SocketBuffer
    BY DEF IInv, TypeOK
  <2> QED
    BY <1>b, <2>1, IpcAssumption
<1>2. TypeOK'
  <2>1. inbox' \in [Clients -> Seq(Nat \cup {SYN_REQ})]
        /\ \A q \in Clients : Len(inbox'[q]) <= SocketBuffer
    BY <1>b, <1>c DEF IInv, TypeOK
  <2> HIDE DEF ReadSync
  <2> QED
    BY <1>1, <1>a, <1>b, <2>1 DEF IInv, TypeOK, Counters
<1> HIDE DEF ReadSync
<1>3. Table' /\ ReloadUndisturbed'
  BY <1>a, TableFrame
<1>4. Server' /\ RefusesOnlyWhenFull'
  BY <1>a, ServerFrame
<1>5. Waiting'
  <2>1. ~reply[c]
    BY <1>b DEF IInv, Waiting, Alive
  <2> QED
    BY <1>a, <1>b, <2>1 DEF IInv, Waiting, Alive
<1>d. ~overlapped => inbox[c] = <<SYN_REQ>>
  BY <1>b DEF IInv, HandshakeFirst, Alive
<1>e. ~overlapped => inbox'[c] = <<>> /\ client'[c] = "answer"
  <2>1. Tail(<<SYN_REQ>>) = <<>> /\ Head(<<SYN_REQ>>) = SYN_REQ
    OBVIOUS
  <2> QED
    BY <1>b, <1>d, <2>1
<1>6. HandshakeFirst'
  <2> SUFFICES ASSUME ~overlapped, NEW d \in Clients, d # c, Alive(d)
               PROVE  /\ client[d] \in {"new", "sync"} => inbox[d] \in {<<>>, <<SYN_REQ>>}
                      /\ client[d] = "answer" => inbox[d] = <<>>
                      /\ client[d] = "stream" => \A i \in DOMAIN inbox[d] : inbox[d][i] # SYN_REQ
    BY ZenonT(40), <1>a, <1>b, <1>e DEF HandshakeFirst, Alive
  <2> QED
    BY DEF IInv, HandshakeFirst
<1>7. (~overlapped => \A d \in Clients : Mine(d))'
  BY <1>a, <1>b DEF IInv, Mine, Alive, Refers
<1> QED
  BY <1>1, <1>2, <1>3, <1>4, <1>5, <1>6, <1>7 DEF IInv

(* The client answers. *)
LEMMA AnswerStep ==
    ASSUME IInv, NEW c \in Clients, Answer(c) PROVE IInv'
<1> USE DEF Answer, Move, handlerVars, reloadVars, serverVars
<1>1. Counters'
  BY CountersFrame DEF IInv
<1>2. TypeOK'
  BY <1>1 DEF IInv, TypeOK, Counters
<1>a. UNCHANGED <<counterVars, open, backlog, inbox, handler, fd, reload, file_fd,
                  server, listen_fd, com_fd, overlapped, refused>>
  OBVIOUS
<1>b. /\ client[c] = "answer" /\ client'[c] = "stream"
      /\ \A d \in Clients : d # c => client'[d] = client[d] /\ reply'[d] = reply[d]
  BY DEF IInv, TypeOK
<1> HIDE DEF Answer
<1>3. Table' /\ ReloadUndisturbed'
  BY <1>a, TableFrame
<1>4. Server' /\ RefusesOnlyWhenFull'
  BY <1>a, ServerFrame
<1>5. Waiting'
  BY <1>a, <1>b DEF IInv, Waiting, Alive
<1>6. HandshakeFirst'
  <2>1. ~overlapped => inbox[c] = <<>>
    BY <1>b DEF IInv, HandshakeFirst, Alive
  <2>2. ~overlapped => \A i \in DOMAIN inbox[c] : inbox[c][i] # SYN_REQ
    BY <2>1
  <2> QED
    BY <1>a, <1>b, <2>2 DEF IInv, HandshakeFirst, Alive
<1>7. (~overlapped => \A d \in Clients : Mine(d))'
  BY <1>a, <1>b DEF IInv, Mine, Alive, Refers
<1> QED
  BY <1>1, <1>2, <1>3, <1>4, <1>5, <1>6, <1>7 DEF IInv

(* The client takes all records that have arrived. *)
LEMMA ReadRecordsStep ==
    ASSUME IInv, NEW c \in Clients, ReadRecords(c) PROVE IInv'
<1> USE DEF ReadRecords, handlerVars, reloadVars, serverVars
<1>1. Counters'
  BY CountersFrame DEF IInv
<1>a. UNCHANGED <<counterVars, open, backlog, client, reply, handler, fd, reload, file_fd,
                  server, listen_fd, com_fd, overlapped, refused>> /\ client[c] = "stream"
  OBVIOUS
<1>b. inbox' \in [Clients -> Seq(Nat \cup {SYN_REQ})] /\ inbox'[c] = <<>>
      /\ \A d \in Clients : d # c => inbox'[d] = inbox[d]
  BY DEF IInv, TypeOK
<1> HIDE DEF ReadRecords
<1>2. TypeOK'
  <2>1. \A q \in Clients : Len(inbox'[q]) <= SocketBuffer
    <3>1. Len(<<>>) = 0 /\ 0 <= SocketBuffer
      BY IpcAssumption
    <3>2. \A q \in Clients : Len(inbox[q]) <= SocketBuffer
      BY DEF IInv, TypeOK
    <3> QED
      BY <1>b, <3>1, <3>2
  <2> QED
    BY <1>1, <1>a, <1>b, <2>1 DEF IInv, TypeOK, Counters
<1>3. Table' /\ ReloadUndisturbed'
  BY <1>a, TableFrame
<1>4. Server' /\ RefusesOnlyWhenFull'
  BY <1>a, ServerFrame
<1>5. Waiting' /\ HandshakeFirst'
  BY <1>a, <1>b DEF IInv, Waiting, HandshakeFirst, Alive
<1>6. (~overlapped => \A d \in Clients : Mine(d))'
  BY <1>a, <1>b DEF IInv, Mine, Alive, Refers
<1> QED
  BY <1>1, <1>2, <1>3, <1>4, <1>5, <1>6 DEF IInv

(* The client's process ends. *)
LEMMA QuitStep ==
    ASSUME IInv, NEW c \in Clients, Quit(c) PROVE IInv'
<1> USE DEF Quit, handlerVars, reloadVars, serverVars
<1>1. Counters'
  BY CountersFrame DEF IInv
<1>a. UNCHANGED <<counterVars, open, backlog, handler, fd, reload, file_fd,
                  server, listen_fd, com_fd, overlapped, refused>>
  OBVIOUS
<1>b. /\ client[c] # "new" /\ client'[c] = "gone" /\ inbox'[c] = <<>> /\ ~reply'[c]
      /\ \A d \in Clients : d # c =>
           client'[d] = client[d] /\ inbox'[d] = inbox[d] /\ reply'[d] = reply[d]
      /\ inbox' \in [Clients -> Seq(Nat \cup {SYN_REQ})]
      /\ client' \in [Clients -> {"new", "sync", "answer", "stream", "gone"}]
      /\ reply' \in [Clients -> BOOLEAN]
  BY DEF IInv, TypeOK
<1> HIDE DEF Quit
<1>2. TypeOK'
  <2>1. \A q \in Clients : Len(inbox'[q]) <= SocketBuffer
    <3>1. Len(<<>>) = 0 /\ 0 <= SocketBuffer
      BY IpcAssumption
    <3>2. \A q \in Clients : Len(inbox[q]) <= SocketBuffer
      BY DEF IInv, TypeOK
    <3> QED
      BY <1>b, <3>1, <3>2
  <2> QED
    BY <1>1, <1>a, <1>b, <2>1 DEF IInv, TypeOK, Counters
<1>3. Table' /\ ReloadUndisturbed'
  BY <1>a, TableFrame
<1>4. Server' /\ RefusesOnlyWhenFull'
  BY <1>a, ServerFrame
<1>5. Waiting' /\ HandshakeFirst'
  <2>1. Waiting'
    BY ZenonT(40), <1>a, <1>b DEF IInv, Waiting, Alive
  <2>2. \A d \in Clients : Alive(d)' => d # c /\ Alive(d)
    BY <1>b DEF Alive
  <2>3. \A d \in Clients : Alive(d)' =>
          Alive(d) /\ client'[d] = client[d] /\ inbox'[d] = inbox[d]
    BY <1>b, <2>2
  <2>4. HandshakeFirst'
    <3> HIDE DEF serverVars, reloadVars, handlerVars
    <3> QED
      BY <1>a, <2>3 DEF IInv, HandshakeFirst
  <2> QED
    BY <2>1, <2>4
<1>6. (~overlapped => \A d \in Clients : Mine(d))'
  BY <1>a, <1>b DEF IInv, Mine, Alive, Refers
<1> QED
  BY <1>1, <1>2, <1>3, <1>4, <1>5, <1>6 DEF IInv

-----------------------------------------------------------------------------
(* The display thread reloads the configuration. *)

(* The file gets a descriptor that nobody has. *)
LEMMA OpenFileStep ==
    ASSUME IInv, OpenFile PROVE IInv'
<1> USE DEF OpenFile, handlerVars, serverVars
<1>0. PICK d \in Fds : open[d] = "free" /\ file_fd' = d /\ open' = [open EXCEPT ![d] = "file"]
  BY LowestFree
<1>1. Counters'
  BY CountersFrame DEF IInv
<1>2. TypeOK'
  BY <1>0, <1>1 DEF IInv, TypeOK, Counters, Things
<1>b. open \in [Fds -> Things] /\ \A e \in Fds : open'[e] = IF e = d THEN "file" ELSE open[e]
  BY <1>0 DEF IInv, TypeOK
<1>a. UNCHANGED <<counterVars, backlog, client, inbox, reply, handler, fd, server, listen_fd,
                  com_fd, overlapped, refused>> /\ reload = "idle" /\ reload' = "reading"
  OBVIOUS
<1> HIDE DEF OpenFile
<1>3. Table' /\ ReloadUndisturbed'
  BY <1>0, <1>a, <1>b, FdFacts DEF IInv, Table, ReloadUndisturbed, Refers
<1>4. Server'
  BY <1>0, <1>a, <1>b, FdFacts DEF IInv, Server, Listening, Refers
<1>5. RefusesOnlyWhenFull'
  BY <1>a, RefusalStays DEF IInv
<1>6. Waiting' /\ HandshakeFirst'
  BY <1>a, <1>b, FdFacts DEF IInv, Waiting, HandshakeFirst, Alive, TypeOK
<1>7. (~overlapped => \A c \in Clients : Mine(c))'
  BY <1>0, <1>a, <1>b, FdFacts DEF IInv, Mine, Alive, Refers
<1> QED
  BY <1>1, <1>2, <1>3, <1>4, <1>5, <1>6, <1>7 DEF IInv

(* Closing the file frees its descriptor and no other. *)
LEMMA ReadFileStep ==
    ASSUME IInv, ReadFile PROVE IInv'
<1> USE DEF ReadFile, Close, handlerVars, serverVars
<1>1. Counters'
  BY CountersFrame DEF IInv
<1>0. file_fd \in Fds /\ open[file_fd] = "file"
  BY DEF Refers
<1>a. UNCHANGED <<counterVars, inbox, reply, handler, fd, server, listen_fd,
                  com_fd, overlapped, refused>> /\ reload' = "idle" /\ file_fd' = Failed
  OBVIOUS
<1>b. /\ open \in [Fds -> Things] /\ open' = [open EXCEPT ![file_fd] = "free"]
      /\ \A e \in Fds : open'[e] = IF e = file_fd THEN "free" ELSE open[e]
  BY <1>0 DEF IInv, TypeOK
<1>c. backlog' = backlog /\ client' = client
  <2>1. ~Refers(file_fd, "listen") /\ \A c \in Clients : ~Refers(file_fd, c)
    BY <1>0, FdFacts DEF Refers
  <2>2. client = [c \in Clients |-> client[c]]
    BY DEF IInv, TypeOK
  <2>3. backlog' = backlog
    BY <2>1
  <2>4. client' = [c \in Clients |-> client[c]]
    BY <2>1
  <2> QED
    BY <2>2, <2>3, <2>4
<1> HIDE DEF ReadFile, Close
<1>2. TypeOK'
  <2>1. open' \in [Fds -> Things]
    BY <1>b DEF Things
  <2> QED
    BY <1>1, <1>a, <1>c, <2>1 DEF IInv, TypeOK, Counters
<1>3. Table' /\ ReloadUndisturbed'
  <2>1. \A e \in Fds : open[e] = "file" => e = file_fd
    BY DEF IInv, Table
  <2>2. Table'
    BY <1>0, <1>a, <1>b, <2>1, FdFacts DEF IInv, Table
  <2> QED
    BY <2>2, <1>a DEF ReloadUndisturbed
<1>4. Server'
  BY <1>0, <1>a, <1>b, FdFacts DEF IInv, Server, Listening, Refers
<1>5. RefusesOnlyWhenFull'
  BY <1>a, RefusalStays DEF IInv
<1>6. Waiting' /\ HandshakeFirst'
  BY <1>a, <1>b, <1>c, FdFacts DEF IInv, Waiting, HandshakeFirst, Alive, TypeOK
<1>7. (~overlapped => \A c \in Clients : Mine(c))'
  BY <1>0, <1>a, <1>b, <1>c, FdFacts DEF IInv, Mine, Alive, Refers
<1> QED
  BY <1>1, <1>2, <1>3, <1>4, <1>5, <1>6, <1>7 DEF IInv

(* A reload that fails changes nothing for the server; it can only get     *)
(* stuck once accept has failed.                                           *)
LEMMA ReloadFailsStep ==
    ASSUME IInv, OpenFileFails \/ ReadFileFails PROVE IInv'
<1> USE DEF OpenFileFails, ReadFileFails, socketVars, handlerVars, serverVars
<1>1. Counters'
  BY CountersFrame DEF IInv
<1>2. TypeOK'
  BY <1>1 DEF IInv, TypeOK, Counters
<1>3. Table' /\ ReloadUndisturbed'
  <2>1. \A e \in Fds : open[e] # "file"
    BY DEF IInv, Table, Refers
  <2> QED
    BY <2>1 DEF IInv, Table, ReloadUndisturbed
<1>4. Server' /\ RefusesOnlyWhenFull'
  BY ServerFrame
<1>5. Waiting' /\ HandshakeFirst'
  BY DEF IInv, Waiting, HandshakeFirst, Alive
<1>6. (~overlapped => \A c \in Clients : Mine(c))'
  BY DEF IInv, Mine, Alive, Refers
<1> QED
  BY <1>1, <1>2, <1>3, <1>4, <1>5, <1>6 DEF IInv

-----------------------------------------------------------------------------
(* The invariant holds initially: nothing has been sent. *)
LEMMA InitHolds ==
    ASSUME Init PROVE IInv
<1> USE DEF Init
<1>1. Counters
  <2> USE DEF CountersInit
  <2>1. CountersTypeOK
    <3>1. MaxPackets * Pktlen \in Nat
      BY CountersAssumption
    <3>2. 0 \in 0..(MaxPackets * Pktlen)
      BY <3>1
    <3> QED
      BY <3>2 DEF CountersTypeOK
  <2>2. Storing = {}
    BY DEF Storing
  <2>3. Sent = {}
    BY CountersAssumption DEF Sent
  <2>4. SentBytes = 0 /\ Pending = 0
    <3>1. Cardinality(Sent) = 0 /\ Cardinality(Storing) = 0
      BY <2>2, <2>3, FS_EmptySet
    <3> QED
      BY <3>1, CountersAssumption DEF SentBytes, Pending
  <2>5. \A g \in Generators : \E n \in 0..MaxPackets : total_send_byte[g] = n * Pktlen
    <3>1. 0 \in 0..MaxPackets /\ 0 * Pktlen = 0
      BY CountersAssumption
    <3> QED
      BY <3>1
  <2> QED
    BY <2>1, <2>2, <2>4, <2>5 DEF Counters
<1>2. TypeOK
  <2>1. open \in [Fds -> Things]
    BY DEF Things
  <2>2. Len(<<>>) = 0 /\ 0 <= SocketBuffer
    BY IpcAssumption
  <2>3. \A c \in Clients : Len(inbox[c]) <= SocketBuffer
    BY <2>2
  <2>4. inbox \in [Clients -> Seq(Nat \cup {SYN_REQ})] /\ backlog \in Seq(Clients)
    OBVIOUS
  <2> QED
    BY <1>1, <2>1, <2>3, <2>4 DEF TypeOK, Counters
<1>3. \A d \in Fds : open[d] = IF d = STDOUT THEN "stdout" ELSE "free"
  OBVIOUS
<1>4. Table /\ Server
  BY <1>3, FdFacts DEF Table, Server
<1>5. Waiting /\ HandshakeFirst
  BY <1>3, FdFacts DEF Waiting, HandshakeFirst, Alive
<1>6. \A c \in Clients : Mine(c)
  BY DEF Mine
<1>7. ReloadUndisturbed /\ RefusesOnlyWhenFull
  BY DEF ReloadUndisturbed, RefusesOnlyWhenFull
<1> QED
  BY <1>1, <1>2, <1>4, <1>5, <1>6, <1>7 DEF IInv

(* Every step of every thread keeps it. *)
LEMMA StepPreserves ==
    ASSUME IInv, [Next]_vars PROVE IInv'
<1>1. CASE UNCHANGED vars
  <2> USE <1>1 DEF vars, socketVars, handlerVars, reloadVars, serverVars
  <2>1. Counters'
    BY CountersFrame DEF IInv
  <2>2. TypeOK'
    BY <2>1 DEF IInv, TypeOK, Counters
  <2>3. Table' /\ ReloadUndisturbed' /\ Server' /\ RefusesOnlyWhenFull'
    BY TableFrame, ServerFrame
  <2>4. Waiting' /\ HandshakeFirst'
    BY DEF IInv, Waiting, HandshakeFirst, Alive
  <2>5. (~overlapped => \A c \in Clients : Mine(c))'
    BY DEF IInv, Mine, Alive, Refers
  <2> QED
    BY <2>1, <2>2, <2>3, <2>4, <2>5 DEF IInv
<1>2. ASSUME NEW g \in Generators, Count(g),
             UNCHANGED <<socketVars, handlerVars, reloadVars, serverVars>>
      PROVE  IInv'
  BY <1>2, CountStep
<1>3. CASE ServerStep
  BY <1>3, CreateServerStep, CreateServerFailsStep, AcceptStep, AcceptFailsStep,
     CloseListenerStep, SpawnStep DEF ServerStep
<1>4. ASSUME NEW c \in Clients, HandlerStep(c) PROVE IInv'
  BY <1>4, ReadFdStep, GreetStep, ReadReplyStep, SendRecordStep, WriteFailsStep
  DEF HandlerStep
<1>5. ASSUME NEW c \in Clients, ClientStep(c) \/ Connect(c) \/ ConnectFails(c) \/ Quit(c)
      PROVE  IInv'
  BY <1>5, ReadSyncStep, AnswerStep, ReadRecordsStep, ConnectStep, ConnectFailsStep, QuitStep
  DEF ClientStep
<1>6. CASE OpenFile \/ OpenFileFails \/ ReadFile \/ ReadFileFails
  BY <1>6, OpenFileStep, ReadFileStep, ReloadFailsStep
<1> QED
  BY <1>1, <1>2, <1>3, <1>4, <1>5, <1>6 DEF Next

(* The invariant holds in every execution. *)
LEMMA Invariance ==
    Spec => []IInv
<1>1. Init => IInv
  BY InitHolds
<1>2. IInv /\ [Next]_vars => IInv'
  BY StepPreserves
<1> QED
  BY <1>1, <1>2, PTL DEF Spec

(* global_loss->send_total never exceeds what was sent, and loses bytes    *)
(* only after two generators were inside its unprotected addition at once. *)
THEOREM CountersLoseOnlyByCollision ==
    Spec => []LossOnlyByCollision
<1>1. IInv => LossOnlyByCollision
  BY DEF IInv, Counters, LossOnlyByCollision
<1> QED
  BY <1>1, Invariance, PTL

(* Unless start_ipc_server accepted again before process_ipc_request had   *)
(* copied com_fd, every handler keeps the connection it was created for.   *)
THEOREM HandlersKeepTheirClients ==
    Spec => []OwnClient
<1>1. IInv => OwnClient
  BY DEF IInv, OwnClient, Mine
<1> QED
  BY <1>1, Invariance, PTL

(* Under the same condition a client reads one SYN_REQ first and records   *)
(* only after its SYN_OK.                                                  *)
THEOREM HandshakeComesFirst ==
    Spec => []HandshakeFirst
<1>1. IInv => HandshakeFirst
  BY DEF IInv
<1> QED
  BY <1>1, Invariance, PTL

(* Until accept has failed, the file that read_config_simple reads is not  *)
(* closed under it and its loop ends.                                      *)
THEOREM ReloadsAreUndisturbed ==
    Spec => []ReloadUndisturbed
<1>1. IInv => ReloadUndisturbed
  BY DEF IInv
<1> QED
  BY <1>1, Invariance, PTL

(* accept fails only once the handlers created so far, with stdout, the    *)
(* listening socket and the configuration file, fill the table.            *)
THEOREM RefusalMeansFull ==
    Spec => []RefusesOnlyWhenFull
<1>1. IInv => RefusesOnlyWhenFull
  BY DEF IInv
<1> QED
  BY <1>1, Invariance, PTL
=============================================================================
