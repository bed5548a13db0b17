-------------------------------- MODULE Ipc --------------------------------
(***************************************************************************)
(* The loss server: the accept loop start_ipc_server, one handler thread   *)
(* process_ipc_request per accepted connection, the clients of             *)
(* start_ipc_client, and the descriptor table they share with the display  *)
(* thread, which opens the configuration file to reload it.                *)
(*                                                                         *)
(* The kernel is external: an open takes the lowest free descriptor,       *)
(* accept needs a free one, a write to a peer that has gone fails (SIGPIPE *)
(* is ignored) and one to a full socket buffer waits.  A handler is named  *)
(* after the connection it is created for.  A record is the send_total in  *)
(* it; the six drop counters of drop_t are never written.                  *)
(***************************************************************************)
EXTENDS LossCounters, Sequences

CONSTANTS
    Clients,
    MaxFd,         \* the size of the descriptor table
    SocketBuffer   \* messages that a connection holds before a write waits

ASSUME IpcAssumption ==
    /\ IsFiniteSet(Clients) /\ Clients \cap {"stdout", "listen", "file", "free"} = {}
    /\ MaxFd \in Nat /\ MaxFd >= 2 /\ SocketBuffer \in Nat \ {0}

STDOUT == 1
Fds == STDOUT..MaxFd
Failed == -1       \* what accept returns on error
SYN_REQ == -1      \* as a message; a record is a natural number
Backlog == 1       \* listen(listen_fd, 1)

VARIABLES
    server,        \* where start_ipc_server is
    listen_fd, com_fd,
    open,          \* per descriptor: what it refers to
    backlog,       \* connections that wait for accept
    client,        \* per client: where start_ipc_client is
    inbox,         \* per client: the stream the server has sent
    reply,         \* per client: SYN_OK has been written and not yet read
    handler,       \* per connection: where its process_ipc_request is
    fd,            \* per handler: its own com_fd
    reload, file_fd,   \* the display thread in read_config_simple
    overlapped,    \* history: accept returned before a handler had read com_fd
    refused        \* history: accept has failed

socketVars == <<open, backlog, client, inbox, reply>>
handlerVars == <<handler, fd>>
reloadVars == <<reload, file_fd>>
serverVars == <<server, listen_fd, com_fd, overlapped, refused>>
vars == <<counterVars, socketVars, handlerVars, reloadVars, serverVars>>

Things == Clients \cup {"stdout", "listen", "file", "free"}

(* Types; what a connection holds fits the socket buffer. *)
TypeOK ==
    /\ CountersTypeOK
    /\ server \in {"create", "accept", "spawn", "close"}
    /\ listen_fd \in Fds \cup {Failed} /\ com_fd \in Fds \cup {Failed}
    /\ open \in [Fds -> Things]
    /\ backlog \in Seq(Clients)
    /\ client \in [Clients -> {"new", "sync", "answer", "stream", "gone"}]
    /\ inbox \in [Clients -> Seq(Nat \cup {SYN_REQ})]
    /\ \A c \in Clients : Len(inbox[c]) <= SocketBuffer
    /\ reply \in [Clients -> BOOLEAN]
    /\ handler \in [Clients -> {"none", "start", "greet", "read", "write", "done"}]
    /\ fd \in [Clients -> Fds \cup {Failed}]
    /\ reload \in {"idle", "reading", "stuck", "exited"} /\ file_fd \in Fds \cup {Failed}
    /\ overlapped \in BOOLEAN /\ refused \in BOOLEAN

Init ==
    /\ CountersInit
    /\ server = "create" /\ listen_fd = Failed /\ com_fd = Failed
    /\ open = [d \in Fds |-> IF d = STDOUT THEN "stdout" ELSE "free"]
    /\ backlog = <<>>
    /\ client = [c \in Clients |-> "new"]
    /\ inbox = [c \in Clients |-> <<>>] /\ reply = [c \in Clients |-> FALSE]
    /\ handler = [c \in Clients |-> "none"] /\ fd = [c \in Clients |-> Failed]
    /\ reload = "idle" /\ file_fd = Failed
    /\ overlapped = FALSE /\ refused = FALSE

-----------------------------------------------------------------------------
(* The kernel. *)

FreeFds == {d \in Fds : open[d] = "free"}
Refers(d, thing) == d \in Fds /\ open[d] = thing
Listening == Refers(listen_fd, "listen")
Alive(c) == client[c] # "gone"

(* The connection behind a descriptor, if there is one with a live peer. *)
Peer(d) == {c \in Clients : Refers(d, c) /\ Alive(c)}

(* Closing the last descriptor of a connection or of the listening socket  *)
(* ends the stream for the client at the other side.                       *)
Close(d) ==
    /\ open' = IF d \in Fds THEN [open EXCEPT ![d] = "free"] ELSE open
    /\ backlog' = IF Refers(d, "listen") THEN <<>> ELSE backlog
    /\ client' = [c \in Clients |->
         IF Refers(d, c) \/ (Refers(d, "listen") /\ \E i \in DOMAIN backlog : backlog[i] = c)
         THEN "gone" ELSE client[c]]
    /\ UNCHANGED <<inbox, reply>>

-----------------------------------------------------------------------------
(* start_ipc_server *)

CreateServer ==
    /\ server = "create" /\ server' = "accept"
    /\ FreeFds # {}
    /\ listen_fd' = Min(FreeFds)
    /\ open' = [open EXCEPT ![Min(FreeFds)] = "listen"]
    /\ UNCHANGED <<counterVars, backlog, client, inbox, reply, handlerVars, reloadVars,
                   com_fd, overlapped, refused>>

(* socket, bind or listen fails: create_ipc_server returns 1. *)
CreateServerFails ==
    /\ server = "create" /\ server' = "accept"
    /\ listen_fd' = STDOUT
    /\ UNCHANGED <<counterVars, socketVars, handlerVars, reloadVars, com_fd, overlapped, refused>>

Starting == \E c \in Clients : handler[c] = "start"

Accept ==
    /\ server = "accept" /\ server' = "spawn"
    /\ Listening /\ backlog # <<>> /\ FreeFds # {}
    /\ com_fd' = Min(FreeFds)
    /\ open' = [open EXCEPT ![Min(FreeFds)] = Head(backlog)]
    /\ backlog' = Tail(backlog)
    /\ overlapped' = (overlapped \/ Starting)
    /\ UNCHANGED <<counterVars, client, inbox, reply, handlerVars, reloadVars,
                   listen_fd, refused>>

(* No descriptor is left, or listen_fd is no listening socket (any more). *)
AcceptFails ==
    /\ server = "accept" /\ server' = "close"
    /\ FreeFds = {} \/ ~Listening
    /\ com_fd' = Failed
    /\ overlapped' = (overlapped \/ Starting)
    /\ refused' = TRUE
    /\ UNCHANGED <<counterVars, socketVars, handlerVars, reloadVars, listen_fd>>

(* close(listen_fd), and round again *)
CloseListener ==
    /\ server = "close" /\ server' = "accept"
    /\ Close(listen_fd)
    /\ UNCHANGED <<counterVars, handlerVars, reloadVars, listen_fd, com_fd, overlapped, refused>>

Created(c) == Refers(com_fd, c)

SpawnAndClose ==
    /\ server = "spawn" /\ server' = "accept"
    /\ handler' = [c \in Clients |-> IF Created(c) THEN "start" ELSE handler[c]]
    /\ open' = [open EXCEPT ![com_fd] = "free"]
    /\ UNCHANGED <<counterVars, backlog, client, inbox, reply, fd, reloadVars, listen_fd,
                   com_fd, overlapped, refused>>

SpawnOneAtATime ==
    /\ server = "spawn" /\ server' = "accept"
    /\ \A c \in Clients : handler[c] \in {"none", "done"}
    /\ handler' = [c \in Clients |-> IF Created(c) THEN "start" ELSE handler[c]]
    /\ UNCHANGED <<counterVars, socketVars, fd, reloadVars, listen_fd, com_fd,
                   overlapped, refused>>

(* pthread_create with the address of com_fd *)
Spawn ==
    /\ server = "spawn" /\ server' = "accept"
    /\ handler' = [c \in Clients |-> IF Created(c) THEN "start" ELSE handler[c]]
    /\ UNCHANGED <<counterVars, socketVars, fd, reloadVars, listen_fd, com_fd,
                   overlapped, refused>>

-----------------------------------------------------------------------------
(* process_ipc_request of the handler created for connection c *)

Go(c, from, to) == handler[c] = from /\ handler' = [handler EXCEPT ![c] = to]
Room(p) == Len(inbox[p]) < SocketBuffer
Send(p, message) == inbox' = [inbox EXCEPT ![p] = Append(@, message)]

(* com_fd is copied from where arg points: whatever accept has put there by now. *)
ReadFd(c) ==
    /\ Go(c, "start", "greet")
    /\ fd' = [fd EXCEPT ![c] = com_fd]
    /\ UNCHANGED <<counterVars, socketVars, reloadVars, serverVars>>

(* The outcome of this write is not looked at. *)
Greet(c) ==
    /\ Go(c, "greet", "read")
    /\ \/ \E p \in Peer(fd[c]) : Room(p) /\ Send(p, SYN_REQ)
       \/ Peer(fd[c]) = {} /\ UNCHANGED inbox
    /\ UNCHANGED <<counterVars, open, backlog, client, reply, fd, reloadVars, serverVars>>

ReadReplyWithoutWaiting(c) ==
    /\ Go(c, "read", "write")
    /\ reply' = [p \in Clients |-> IF p \in Peer(fd[c]) THEN FALSE ELSE reply[p]]
    /\ UNCHANGED <<counterVars, open, backlog, client, inbox, fd, reloadVars, serverVars>>

(* The handler waits for the answer, or for the client to go.  The test    *)
(* for SYN_OK ends in an empty statement: the handler sends records        *)
(* whatever it has read, at a speed found somewhere in its buffer.         *)
ReadReply(c) ==
    /\ Go(c, "read", "write")
    /\ \A p \in Peer(fd[c]) : reply[p]
    /\ reply' = [p \in Clients |-> IF p \in Peer(fd[c]) THEN FALSE ELSE reply[p]]
    /\ UNCHANGED <<counterVars, open, backlog, client, inbox, fd, reloadVars, serverVars>>

(* memcpy of global_loss, write, usleep *)
SendRecord(c) ==
    /\ handler[c] = "write"
    /\ \E p \in Peer(fd[c]) : Room(p) /\ Send(p, send_total)
    /\ UNCHANGED <<counterVars, open, backlog, client, reply, handlerVars, reloadVars, serverVars>>

WriteFailsAndGoesOn(c) ==
    /\ handler[c] = "write"
    /\ Peer(fd[c]) = {}
    /\ Close(fd[c])
    /\ UNCHANGED <<counterVars, handlerVars, reloadVars, serverVars>>

(* pthread_exit, and the descriptor stays open *)
WriteFails(c) ==
    /\ Go(c, "write", "done")
    /\ Peer(fd[c]) = {}
    /\ UNCHANGED <<counterVars, socketVars, fd, reloadVars, serverVars>>

HandlerStep(c) ==
    ReadFd(c) \/ Greet(c) \/ ReadReply(c) \/ SendRecord(c) \/ WriteFails(c)

-----------------------------------------------------------------------------
(* start_ipc_client *)

Move(c, from, to) == client[c] = from /\ client' = [client EXCEPT ![c] = to]

Connect(c) ==
    /\ Move(c, "new", "sync")
    /\ Listening /\ Len(backlog) <= Backlog
    /\ backlog' = Append(backlog, c)
    /\ UNCHANGED <<counterVars, open, inbox, reply, handlerVars, reloadVars, serverVars>>

ConnectFails(c) ==
    /\ Move(c, "new", "gone")
    /\ ~Listening
    /\ UNCHANGED <<counterVars, open, backlog, inbox, reply, handlerVars, reloadVars, serverVars>>

(* The first 1024 bytes have to be SYN_REQ. *)
ReadSync(c) ==
    /\ inbox[c] # <<>>
    /\ Move(c, "sync", IF Head(inbox[c]) = SYN_REQ THEN "answer" ELSE "gone")
    /\ inbox' = [inbox EXCEPT ![c] = Tail(@)]
    /\ UNCHANGED <<counterVars, open, backlog, reply, handlerVars, reloadVars, serverVars>>

Answer(c) ==
    /\ Move(c, "answer", "stream")
    /\ reply' = [reply EXCEPT ![c] = TRUE]
    /\ UNCHANGED <<counterVars, open, backlog, inbox, handlerVars, reloadVars, serverVars>>

(* One read takes all that has arrived, one record or several. *)
ReadRecords(c) ==
    /\ client[c] = "stream" /\ inbox[c] # <<>>
    /\ inbox' = [inbox EXCEPT ![c] = <<>>]
    /\ UNCHANGED <<counterVars, open, backlog, client, reply, handlerVars, reloadVars, serverVars>>

(* The client's process ends, at any moment. *)
Quit(c) ==
    /\ client[c] \in {"sync", "answer", "stream"}
    /\ client' = [client EXCEPT ![c] = "gone"]
    /\ inbox' = [inbox EXCEPT ![c] = <<>>]
    /\ reply' = [reply EXCEPT ![c] = FALSE]
    /\ UNCHANGED <<counterVars, open, backlog, handlerVars, reloadVars, serverVars>>

ClientStep(c) == ReadSync(c) \/ Answer(c) \/ ReadRecords(c)

-----------------------------------------------------------------------------
(* read_config_simple, as far as descriptors go *)

OpenFile ==
    /\ reload = "idle" /\ FreeFds # {} /\ reload' = "reading"
    /\ file_fd' = Min(FreeFds)
    /\ open' = [open EXCEPT ![Min(FreeFds)] = "file"]
    /\ UNCHANGED <<counterVars, backlog, client, inbox, reply, handlerVars, serverVars>>

OpenFileFails ==
    /\ reload = "idle" /\ FreeFds = {} /\ reload' = "exited"
    /\ UNCHANGED <<counterVars, socketVars, handlerVars, file_fd, serverVars>>

ReadFileLeaks ==
    /\ reload = "reading" /\ reload' = "idle"
    /\ file_fd' = Failed
    /\ UNCHANGED <<counterVars, socketVars, handlerVars, serverVars>>

(* fgets to the end of the file, and fclose *)
ReadFile ==
    /\ reload = "reading" /\ Refers(file_fd, "file") /\ reload' = "idle"
    /\ Close(file_fd) /\ file_fd' = Failed
    /\ UNCHANGED <<counterVars, handlerVars, serverVars>>

(* The descriptor is gone: fgets fails, feof stays false and the loop that *)
(* waits for it never ends.                                                *)
ReadFileFails ==
    /\ reload = "reading" /\ ~Refers(file_fd, "file") /\ reload' = "stuck"
    /\ UNCHANGED <<counterVars, socketVars, handlerVars, file_fd, serverVars>>

-----------------------------------------------------------------------------
ServerStep ==
    CreateServer \/ CreateServerFails \/ Accept \/ AcceptFails \/ CloseListener \/ Spawn

Next ==
    /\ reload # "exited"
    /\ \/ \E g \in Generators : Count(g) /\ UNCHANGED <<socketVars, handlerVars, reloadVars, serverVars>>
       \/ ServerStep
       \/ \E c \in Clients : HandlerStep(c) \/ ClientStep(c) \/ Connect(c) \/ ConnectFails(c) \/ Quit(c)
       \/ OpenFile \/ OpenFileFails \/ ReadFile \/ ReadFileFails

(* The threads of the server and the clients are scheduled, which is       *)
(* needed of the accept loop and up to the client's reading of SYN_REQ;    *)
(* nothing is assumed of when clients come and go.                         *)
Spec ==
    /\ Init /\ [][Next]_vars
    /\ WF_vars(reload # "exited" /\ ServerStep)
    /\ \A c \in Clients :
         /\ WF_vars(reload # "exited" /\ (ReadFd(c) \/ Greet(c)))
         /\ WF_vars(ReadSync(c))

-----------------------------------------------------------------------------
(* Types hold, and unless an accept came between the creation of a handler *)
(* and its look at com_fd, every handler works on the connection it was    *)
(* created for, and that connection's descriptor is not given to anything  *)
(* else as long as the handler lives.                                      *)
OwnClient ==
    /\ TypeOK
    /\ ~overlapped =>
      \A c \in Clients : handler[c] \in {"greet", "read", "write"} => Refers(fd[c], c)

(* Under the same condition the stream of a client begins with the one     *)
(* SYN_REQ it waits for, and records follow only after it has answered.    *)
HandshakeFirst ==
    ~overlapped =>
      \A c \in Clients : Alive(c) =>
        /\ client[c] \in {"new", "sync"} => inbox[c] \in {<<>>, <<SYN_REQ>>}
        /\ client[c] = "answer" => inbox[c] = <<>>
        /\ client[c] = "stream" => \A i \in DOMAIN inbox[c] : inbox[c][i] # SYN_REQ

(* As long as accept has not failed, nobody closes the file the display    *)
(* thread is reading.                                                      *)
ReloadUndisturbed ==
    ~refused => (reload # "stuck" /\ (reload = "reading" => Refers(file_fd, "file")))

(* Descriptors of finished connections are never closed, but nothing else  *)
(* leaks: accept fails no earlier than when stdout, the listening socket,  *)
(* the configuration file and all connections so far fill the table.       *)
RefusesOnlyWhenFull ==
    (refused /\ listen_fd # STDOUT) =>
      Cardinality({c \in Clients : handler[c] # "none"}) >= MaxFd - 3

(* A client that has connected gets its SYN_REQ (or gives up), unless a    *)
(* handler lost its descriptor to a later accept or the table has filled.  *)
ClientsServed ==
    \A c \in Clients :
      (client[c] = "sync") ~> (client[c] # "sync" \/ overlapped \/ refused \/ reload = "exited")
=============================================================================
