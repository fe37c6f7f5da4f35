----------------------------- MODULE Descriptors ----------------------------
(***************************************************************************)
(* The two libraries that hand out file descriptors, in one process:       *)
(* libraries/server_lib/server_lib.c, whose establish_server brings up a   *)
(* listening socket, and libraries/file_utils/file_utils_lib.c, whose      *)
(* open_file and validate_and_open_file return FILE handles and whose      *)
(* get_file_size_bytes asks the kernel about one.  They meet in the        *)
(* process's table of descriptors, which is finite, and in which a number  *)
(* that was closed is soon given out again, for something else.            *)
(*                                                                         *)
(* One thread calls establish_server for each server_t, over and over      *)
(* until it is told true, with a server_socket that is -1 at first.  When  *)
(* it was told false it just tries again ("retry"), or first closes the    *)
(* number in server_socket if there is one ("close"), or closes it and     *)
(* sets server_socket to -1 again ("tidy").  The library asks for none of  *)
(* them.  The second goes wrong: when socket fails, server_socket still    *)
(* holds the number that was closed before, and which may be in use again. *)
(* Kernel, callers and other users of the files are environment.           *)
(***************************************************************************)
EXTENDS Integers, FiniteSetsExt

CONSTANTS
    Servers,    \* the server_t objects
    Readers,    \* the threads that open files, one handle at a time each
    Configs,    \* the combinations of server_type and port_number; for port
                \* 0 the kernel would choose one, which is left out
    Paths,      \* the files
    MaxFd,      \* the limit on open descriptors, numbered from 0 here
    MaxFaults,  \* bound on the calls that fail for no reason in the model
    FREE, NULL

TCP == 0
UDP == 1
Fds == 0 .. MaxFd - 1

\* What a descriptor stands for: a socket of a server, or the file, of the
\* kind of its path, that a reader has open.
Sockets == [owner : Servers, kind : {TCP, UDP}, port : Nat \cup {NULL},
            reuse : BOOLEAN, timeout : BOOLEAN, listening : BOOLEAN]
Files == [owner : Readers, kind : Paths]

ASSUME DescriptorAssumption ==
    /\ MaxFd \in Nat /\ MaxFaults \in Nat
    /\ Servers \cap Readers = {}
    /\ IsFiniteSet(Servers) /\ IsFiniteSet(Readers)
    /\ Cardinality(Servers) + Cardinality(Readers) =< MaxFd
    /\ Configs \subseteq [Servers -> [type : {0, 1, 2}, port : Nat \ {0}]]
    /\ Paths \cap {TCP, UDP} = {}
    /\ NULL \notin Nat /\ NULL \notin Paths
    /\ FREE \notin Sockets \cup Files

VARIABLES
    policy,         \* what the callers do when they are told false
    server_type,    \* the fields of each server_t
    port_number,
    server_socket,
    fds,            \* the table of open descriptors
    at,             \* where each thread is
    files,          \* absent, plain, or locked: fopen is refused
    handle,         \* the descriptor of each reader's FILE, or NULL
    path,           \* the file each reader opens or has open, or NULL
    misled,         \* history: a caller was told false by a socket call that
                    \* failed, and found a number that it had closed before
    faults,
    crashed         \* validate_and_open_file used a null FILE

fieldVars == <<policy, server_type, port_number>>
fileVars == <<files, handle, path>>
vars == <<fieldVars, fileVars, server_socket, fds, at, misled, faults, crashed>>

Policies == {"retry", "close", "tidy"}
Kinds == {"absent", "plain", "locked"}

Init ==
    /\ policy \in Policies
    /\ \E c \in Configs : /\ server_type = [s \in Servers |-> c[s].type]
                         /\ port_number = [s \in Servers |-> c[s].port]
    /\ server_socket = [s \in Servers |-> -1]
    /\ fds = [f \in Fds |-> FREE]
    /\ at = [t \in Servers \cup Readers |-> "idle"]
    /\ files \in [Paths -> Kinds]
    /\ handle = [r \in Readers |-> NULL]
    /\ path = [r \in Readers |-> NULL]
    /\ misled = FALSE /\ faults = 0 /\ crashed = FALSE

Goto(t, l) == at' = [at EXCEPT ![t] = l]

-----------------------------------------------------------------------------
\* The kernel

FreeFds == {f \in Fds : fds[f] = FREE}

\* The lowest number that is free is given out; fds then holds obj under it.
Allot(obj) == fds' = [fds EXCEPT ![Min(FreeFds)] = obj]

\* close: whatever is open under the number is closed.
Closed(f) == [fds EXCEPT ![f] = FREE]

Socket(s) == [owner |-> s, kind |-> server_type[s], port |-> NULL,
              reuse |-> FALSE, timeout |-> FALSE, listening |-> FALSE]

File(r, p) == [owner |-> r, kind |-> p]

IsSocket(f) == fds[f] # FREE /\ fds[f].kind \in {TCP, UDP}

\* Another TCP socket listens on the port already.
PortTaken(s) ==
    \E f \in Fds \ {server_socket[s]} :
        IsSocket(f) /\ fds[f].listening /\ fds[f].port = port_number[s]

\* A socket is bound once.  Both sockets allow the address to be reused, or
\* one is UDP: only a socket that listens stands in the way of bind.
CanBind(s) ==
  LET h == server_socket[s] IN
    /\ IsSocket(h) /\ fds[h].port = NULL
    /\ \A f \in Fds \ {h} :
         (/\ IsSocket(f) /\ fds[f].kind = fds[h].kind
          /\ fds[f].port = port_number[s])
         => fds[f].reuse /\ fds[h].reuse /\ ~fds[f].listening

\* A UDP socket cannot listen, and one socket listens on a port.
CanListen(s) ==
  LET h == server_socket[s] IN
    /\ IsSocket(h) /\ fds[h].kind = TCP
    /\ \A f \in Fds \ {h} :
         IsSocket(f) /\ fds[f].listening /\ fds[f].port # NULL
         => fds[f].port # fds[h].port

Fault == faults < MaxFaults /\ faults' = faults + 1

-----------------------------------------------------------------------------
\* establish_server

\* A server_type that is neither TCP nor UDP, or socket fails: server_socket
\* keeps the number it had, which misleads a caller that closed it and left
\* it there.  (A null server_t changes nothing at all.)
SocketFail(s) ==
    /\ at[s] = "idle"
    /\ \/ server_type[s] \notin {TCP, UDP} /\ UNCHANGED faults
       \/ server_type[s] \in {TCP, UDP} /\ FreeFds = {} /\ UNCHANGED faults
       \/ server_type[s] \in {TCP, UDP} /\ Fault
    /\ Goto(s, "false")
    /\ misled' = (misled \/ (policy = "close" /\ server_socket[s] # -1))
    /\ UNCHANGED <<fieldVars, fileVars, server_socket, fds, crashed>>

\* Mutant: every type that is not TCP counts as UDP.
SocketAnyType(s) ==
    /\ at[s] = "idle" /\ FreeFds # {}
    /\ server_socket' = [server_socket EXCEPT ![s] = Min(FreeFds)]
    /\ Allot(Socket(s))
    /\ Goto(s, "options")
    /\ UNCHANGED <<fieldVars, fileVars, misled, faults, crashed>>

\* Mutant: the descriptor of a UDP socket is not stored.
SocketStoresTcp(s) ==
    /\ at[s] = "idle" /\ server_type[s] \in {TCP, UDP} /\ FreeFds # {}
    /\ server_socket' = IF server_type[s] = UDP THEN server_socket
                        ELSE [server_socket EXCEPT ![s] = Min(FreeFds)]
    /\ Allot(Socket(s))
    /\ Goto(s, IF server_type[s] = UDP THEN "false" ELSE "options")
    /\ UNCHANGED <<fieldVars, fileVars, misled, faults, crashed>>

\* establish_server_socket
SocketOk(s) ==
    /\ at[s] = "idle" /\ server_type[s] \in {TCP, UDP} /\ FreeFds # {}
    /\ server_socket' = [server_socket EXCEPT ![s] = Min(FreeFds)]
    /\ Allot(Socket(s))
    /\ Goto(s, "options")
    /\ UNCHANGED <<fieldVars, fileVars, misled, faults, crashed>>

\* One successful call on the socket of s, which sets a field of it.
OnSocket(s, l, obj, next) ==
    /\ at[s] = l /\ IsSocket(server_socket[s])
    /\ fds' = [fds EXCEPT ![server_socket[s]] = obj]
    /\ Goto(s, next)
    /\ UNCHANGED <<fieldVars, fileVars, server_socket, misled, faults, crashed>>

\* set_socket_options and set_socket_timeout
SetOptions(s) ==
    OnSocket(s, "options", [fds[server_socket[s]] EXCEPT !.reuse = TRUE],
             "timeout")

SetTimeout(s) ==
    OnSocket(s, "timeout", [fds[server_socket[s]] EXCEPT !.timeout = TRUE],
             "bind")

\* server_bind_and_listen
Bind(s) ==
    /\ at[s] = "bind" /\ CanBind(s)
    /\ OnSocket(s, "bind",
                [fds[server_socket[s]] EXCEPT !.port = port_number[s]],
                "listen")

\* Mutant: the result of listen is taken for its opposite.
ListenInverted(s) ==
    /\ at[s] = "listen" /\ CanListen(s)
    /\ OnSocket(s, "listen",
                [fds[server_socket[s]] EXCEPT !.listening = TRUE], "false")

Listen(s) ==
    /\ at[s] = "listen" /\ CanListen(s)
    /\ OnSocket(s, "listen",
                [fds[server_socket[s]] EXCEPT !.listening = TRUE], "true")

\* The call that is next fails: the number is no longer that of a socket, the
\* address is in use, or for no reason in the model.
CallFails(s) ==
    \/ at[s] \in {"options", "timeout", "bind", "listen"} /\ Fault
    \/ /\ \/ at[s] \in {"options", "timeout"} /\ ~IsSocket(server_socket[s])
          \/ at[s] = "bind" /\ ~CanBind(s)
          \/ at[s] = "listen" /\ ~CanListen(s)
       /\ UNCHANGED faults

\* Mutant: a call that fails closes the socket, and leaves its number.
StepFailCloses(s) ==
    /\ CallFails(s)
    /\ fds' = Closed(server_socket[s])
    /\ Goto(s, "false")
    /\ UNCHANGED <<fieldVars, fileVars, server_socket, misled, crashed>>

\* Mutant: a listen that fails goes unnoticed.
StepFailUnnoticed(s) ==
    /\ CallFails(s)
    /\ Goto(s, IF at[s] = "listen" THEN "true" ELSE "false")
    /\ UNCHANGED <<fieldVars, fileVars, server_socket, fds, misled, crashed>>

\* The socket stays open, server_socket stays its number.
StepFail(s) ==
    /\ CallFails(s)
    /\ Goto(s, "false")
    /\ UNCHANGED <<fieldVars, fileVars, server_socket, fds, misled, crashed>>

\* The caller closes server_socket.
CloseSocket(s) ==
    /\ fds' = Closed(server_socket[s])
    /\ server_socket' = IF policy = "close" THEN server_socket
                        ELSE [server_socket EXCEPT ![s] = -1]

\* The caller, told false
HandleFalse(s) ==
    /\ at[s] = "false"
    /\ IF policy # "retry" /\ server_socket[s] # -1
       THEN CloseSocket(s)
       ELSE UNCHANGED <<fds, server_socket>>
    /\ Goto(s, "idle")
    /\ UNCHANGED <<fieldVars, fileVars, misled, faults, crashed>>

\* The caller takes its server down, and may bring it up again.
StopServer(s) ==
    /\ at[s] = "true"
    /\ CloseSocket(s)
    /\ Goto(s, "idle")
    /\ UNCHANGED <<fieldVars, fileVars, misled, faults, crashed>>

-----------------------------------------------------------------------------
\* The files

\* For reading, for writing, for writing a new file, and what is no mode.
Modes == {"r", "w", "wx", "bad"}

\* Whether fopen can succeed; for writing it creates a file that is absent.
Opens(p, mode) ==
    /\ FreeFds # {}
    /\ \/ files[p] = "plain" /\ mode \in {"r", "w"}
       \/ files[p] = "absent" /\ mode \in {"w", "wx"}

\* open_file with a null argument or an fopen that fails, and
\* validate_and_open_file with a null argument or a path that does not
\* resolve or lies outside the root directory, give NULL.
OpenNothing(r) ==
    /\ at[r] = "idle" /\ handle[r] = NULL
    /\ UNCHANGED vars

OpenFile(r, p, mode) ==
    /\ at[r] = "idle" /\ handle[r] = NULL /\ Opens(p, mode)
    /\ Allot(File(r, p))
    /\ handle' = [handle EXCEPT ![r] = Min(FreeFds)]
    /\ path' = [path EXCEPT ![r] = p]
    /\ files' = [files EXCEPT ![p] = "plain"]
    /\ UNCHANGED <<fieldVars, server_socket, at, misled, faults, crashed>>

\* validate_and_open_file as far as the test for the root directory
Resolve(r, p) ==
    /\ at[r] = "idle" /\ handle[r] = NULL
    /\ files[p] # "absent"
    /\ path' = [path EXCEPT ![r] = p]
    /\ Goto(r, "lstat")
    /\ UNCHANGED <<fieldVars, server_socket, fds, files, handle, misled, faults,
                   crashed>>

\* lstat and S_ISREG: the file may have gone meanwhile, or is not a regular
\* one.
LstatFail(r) ==
    /\ at[r] = "lstat"
    /\ path' = [path EXCEPT ![r] = NULL]
    /\ Goto(r, "idle")
    /\ UNCHANGED <<fieldVars, server_socket, fds, files, handle, misled, faults,
                   crashed>>

Lstat(r) ==
    /\ at[r] = "lstat" /\ files[path[r]] # "absent"
    /\ Goto(r, "fopen")
    /\ UNCHANGED <<fieldVars, fileVars, server_socket, fds, misled, faults,
                   crashed>>

\* is_file_binary reads to the end, rewinds, and never finds a binary file:
\* !RECORD_SEP is false.
FopenOk(r, mode) ==
    /\ at[r] = "fopen" /\ Opens(path[r], mode)
    /\ Allot(File(r, path[r]))
    /\ handle' = [handle EXCEPT ![r] = Min(FreeFds)]
    /\ files' = [files EXCEPT ![path[r]] = "plain"]
    /\ Goto(r, "idle")
    /\ UNCHANGED <<fieldVars, server_socket, path, misled, faults, crashed>>

\* fopen fails, the error is reported, and is_file_binary reads from NULL.
FopenCrash(r, mode) ==
    /\ at[r] = "fopen"
    /\ \/ ~Opens(path[r], mode) /\ UNCHANGED faults
       \/ Fault
    /\ crashed' = TRUE
    /\ UNCHANGED <<fieldVars, fileVars, server_socket, fds, at, misled>>

\* fstat on the descriptor of a handle, 0 for NULL and when it fails.  The
\* size of a file is represented by the file.
get_file_size_bytes(h) ==
    IF h = NULL THEN 0 ELSE IF fds[h] = FREE THEN 0 ELSE fds[h].kind

\* The caller closes its handle.
Fclose(r) ==
    /\ at[r] = "idle" /\ handle[r] # NULL
    /\ fds' = Closed(handle[r])
    /\ handle' = [handle EXCEPT ![r] = NULL]
    /\ path' = [path EXCEPT ![r] = NULL]
    /\ UNCHANGED <<fieldVars, server_socket, at, files, misled, faults, crashed>>

\* Another process removes, replaces or creates a file.
FileChanges(p, k) ==
    /\ k # files[p]
    /\ files' = [files EXCEPT ![p] = k]
    /\ UNCHANGED <<fieldVars, server_socket, fds, at, handle, path, misled,
                   faults, crashed>>

-----------------------------------------------------------------------------
ServerStep(s) ==
    \/ SocketFail(s) \/ SocketOk(s) \/ SetOptions(s) \/ SetTimeout(s)
    \/ Bind(s) \/ Listen(s) \/ StepFail(s) \/ HandleFalse(s)

ReaderStep(r) ==
    \/ OpenNothing(r)
    \/ \E p \in Paths : Resolve(r, p) \/ \E m \in Modes : OpenFile(r, p, m)
    \/ LstatFail(r) \/ Lstat(r) \/ Fclose(r)
    \/ \E m \in Modes : FopenOk(r, m) \/ FopenCrash(r, m)

Next ==
    \/ /\ ~crashed
       /\ \/ \E s \in Servers : ServerStep(s) \/ StopServer(s)
          \/ \E r \in Readers : ReaderStep(r)
          \/ \E p \in Paths, k \in Kinds : FileChanges(p, k)
    \/ crashed /\ UNCHANGED vars

Spec == Init /\ [][Next]_vars

\* The threads of the servers keep trying.
FairSpec == Spec /\ \A s \in Servers : WF_vars(~crashed /\ ServerStep(s))

-----------------------------------------------------------------------------
(* Properties *)

\* Every variable keeps its type.
TypeOK ==
    /\ policy \in Policies
    /\ server_type \in [Servers -> {0, 1, 2}]
    /\ port_number \in [Servers -> Nat]
    /\ server_socket \in [Servers -> Fds \cup {-1}]
    /\ fds \in [Fds -> {FREE} \cup Sockets \cup Files]
    /\ at \in [Servers \cup Readers ->
                 {"idle", "options", "timeout", "bind", "listen",
                  "true", "false", "lstat", "fopen"}]
    /\ files \in [Paths -> Kinds]
    /\ handle \in [Readers -> Fds \cup {NULL}]
    /\ path \in [Readers -> Paths \cup {NULL}]
    /\ faults \in 0 .. MaxFaults
    /\ misled \in BOOLEAN /\ crashed \in BOOLEAN

\* "true: successfully started server": server_socket then is the server's own
\* socket, it listens on port_number with its options set, whatever other
\* attempts left behind, and it is the only one that does.  (A caller that was
\* misled closes the sockets of others.)
EstablishedListens ==
    \A s \in Servers : at[s] = "true" /\ ~misled =>
      LET f == server_socket[s] IN
        /\ f # -1 /\ IsSocket(f) /\ fds[f].owner = s
        /\ fds[f].listening /\ fds[f].port = port_number[s]
        /\ fds[f].reuse /\ fds[f].timeout
        /\ ~PortTaken(s)

\* A failure of establish_server leaves its socket open, and server_socket is
\* the only trace of it: with callers that close it, and were not misled, no
\* socket is lost, and as many descriptors as servers and readers are always
\* enough: neither socket nor fopen fails for want of one.
TidyKeepsDescriptors ==
    policy # "retry" /\ ~misled =>
      /\ \A f \in Fds : IsSocket(f) => server_socket[fds[f].owner] = f
      /\ \A s \in Servers : at[s] = "idle" => FreeFds # {}
      /\ \A r \in Readers : handle[r] = NULL => FreeFds # {}

\* No descriptor is closed under a FILE: each handle keeps the file that it
\* was opened for, and get_file_size_bytes answers for that file.  Only a
\* caller that closed server_socket, left the number there and was then told
\* false by a socket call that failed takes a FILE for its socket.
HandleKeepsFile ==
    \A r \in Readers : handle[r] # NULL /\ ~misled =>
      /\ fds[handle[r]] = File(r, path[r])
      /\ get_file_size_bytes(handle[r]) = path[r]

\* A TCP server whose caller keeps trying comes up, unless its port is taken:
\* no attempt that failed blocks the port or uses up the descriptors.
ServerComesUp ==
    \A s \in Servers :
      (policy # "retry" /\ server_type[s] = TCP)
        ~> (at[s] = "true" \/ PortTaken(s) \/ misled \/ crashed)

=============================================================================
