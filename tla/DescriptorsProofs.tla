-------------------------- MODULE DescriptorsProofs -------------------------
(***************************************************************************)
(* Proofs about Descriptors, for any servers, readers, files and size of   *)
(* the table that holds one descriptor for each of them.                   *)
(***************************************************************************)
EXTENDS Descriptors, FiniteSetTheorems, TLAPS

-----------------------------------------------------------------------------
(* The parts of the inductive invariant *)

Attempt == {"options", "timeout", "bind", "listen"}
Labels == Attempt \cup {"idle", "true", "false", "lstat", "fopen"}

\* Servers and readers stay within their own code, and a reader that is within
\* validate_and_open_file has the path it was called with.
LabelsOK ==
    /\ \A s \in Servers : at[s] \in Attempt \cup {"idle", "true", "false"}
    /\ \A r \in Readers : at[r] \in {"idle", "lstat", "fopen"}
    /\ \A r \in Readers : at[r] # "idle" => path[r] # NULL

Basic == TypeOK /\ LabelsOK

\* The number in server_socket is not one that the caller has closed.
InUse(s) ==
    server_socket[s] # -1 /\ ~(policy = "close" /\ at[s] = "idle")

\* A number in use is that of a socket of the server, which has got as far as
\* establish_server has.
SocketOK(s) ==
    LET f == server_socket[s] IN
      /\ InUse(s) => /\ fds[f] \in Sockets
                     /\ fds[f].owner = s /\ fds[f].kind = server_type[s]
      /\ at[s] \in Attempt \cup {"true"} => f # -1
      /\ at[s] \in {"timeout", "bind", "listen", "true"} => fds[f].reuse
      /\ at[s] \in {"bind", "listen", "true"} => fds[f].timeout
      /\ at[s] \in {"listen", "true"} => fds[f].port = port_number[s]
      /\ at[s] = "true" => fds[f].listening
      /\ at[s] \in Attempt => ~fds[f].listening

SocketsOK == \A s \in Servers : SocketOK(s)

Listens(f) == fds[f] \in Sockets /\ fds[f].listening

\* No two sockets listen on one port.
PortsOK ==
    \A f, g \in Fds :
        (Listens(f) /\ Listens(g) /\ fds[f].port = fds[g].port) => f = g

\* A handle is the number of the reader's own file.
HandleOK(r) ==
    /\ handle[r] # NULL => fds[handle[r]] = File(r, path[r]) /\ path[r] # NULL
    /\ at[r] # "idle" => handle[r] = NULL

HandlesOK == \A r \in Readers : HandleOK(r)

\* Each file that is open is held by its reader's handle.
FilesHeld == \A f \in Fds : fds[f] \in Files => handle[fds[f].owner] = f

\* With callers that close it, a socket that is open is known to its server,
\* which is not between two attempts.
SocketsHeld ==
    \A f \in Fds : fds[f] \in Sockets =>
        server_socket[fds[f].owner] = f /\ at[fds[f].owner] # "idle"

TidyOK == policy # "retry" => SocketsHeld

\* Everything that is open belongs to the server or reader that opened it.
Owned == SocketsOK /\ PortsOK /\ HandlesOK /\ FilesHeld /\ TidyOK

Inv == Basic /\ Owned

\* A caller that was misled may close what belongs to others.
IndInv == Basic /\ (~misled => Owned)

-----------------------------------------------------------------------------
(* Facts about the definitions *)

\* A set of numbers that is not empty has a least one: the kernel gives out a
\* descriptor that is free.
LEMMA MinOfNat ==
    ASSUME NEW S, S \subseteq Nat, S # {}
    PROVE  Min(S) \in S
<1> DEFINE Less == {ss \in Nat \X Nat : ss[1] < ss[2]}
<1>1. IsWellFoundedOn(Less, Nat)
  BY NatLessThanWellFounded, Zenon DEF OpToRel
<1>2. \E x \in S : \A y \in S : ~(<<y, x>> \in Less)
  BY <1>1, WFMin, Zenon
<1>3. PICK x \in S : \A y \in S : ~(<<y, x>> \in Less)
  BY <1>2, Zenon
<1>4. ASSUME NEW y \in S PROVE x =< y
  <2>1. x \in Nat /\ y \in Nat
    OBVIOUS
  <2>2. ~(<<y, x>> \in Less)
    BY <1>3, Zenon
  <2>3. ~(y < x)
    BY <2>1, <2>2, Zenon
  <2> QED
    BY <2>1, <2>3
<1> QED
  BY <1>4, Zenon DEF Min

\* The number that the kernel gives out is that of a free place.
LEMMA Allotted ==
    ASSUME FreeFds # {}
    PROVE  Min(FreeFds) \in Fds /\ fds[Min(FreeFds)] = FREE
<1>1. FreeFds \subseteq Nat
  BY DescriptorAssumption DEF FreeFds, Fds
<1>2. Min(FreeFds) \in FreeFds
  BY <1>1, MinOfNat, Zenon
<1> QED
  BY <1>2 DEF FreeFds

\* Sockets, files and free places are told apart.
LEMMA Apart ==
    /\ \A x \in Sockets : x \notin Files /\ x # FREE
    /\ \A x \in Files : x \notin Sockets /\ x # FREE
    /\ FREE \notin Sockets /\ FREE \notin Files
    /\ -1 \notin Fds /\ NULL \notin Fds /\ NULL \notin Paths
    /\ \A s \in Servers : s \notin Readers
<1>1. \A x \in Sockets : x.kind \in {TCP, UDP}
  BY DEF Sockets
<1>2. \A x \in Files : x.kind \in Paths
  BY DEF Files
<1> QED
  BY <1>1, <1>2, DescriptorAssumption DEF Fds

\* IsSocket tells the sockets in the table from files and free places.
LEMMA SocketIs ==
    ASSUME TypeOK, NEW f \in Fds
    PROVE  IsSocket(f) <=> fds[f] \in Sockets
<1>1. fds[f] \in {FREE} \cup Sockets \cup Files
  BY DEF TypeOK
<1>2. \A x \in Sockets : x.kind \in {TCP, UDP}
  BY DEF Sockets
<1>3. \A x \in Files : x.kind \notin {TCP, UDP}
  BY DescriptorAssumption DEF Files
<1> QED
  BY <1>1, <1>2, <1>3, Apart DEF IsSocket

\* As many descriptors as threads are enough: one is free for a thread that
\* has none.
LEMMA SpareFd ==
    ASSUME TypeOK, FilesHeld, SocketsHeld,
           NEW t \in Servers \cup Readers,
           \A f \in Fds : fds[f] # FREE => fds[f].owner # t
    PROVE  FreeFds # {}
<1> DEFINE Threads == Servers \cup Readers
           o == [f \in Fds |-> fds[f].owner]
<1> SUFFICES ASSUME FreeFds = {} PROVE FALSE
  OBVIOUS
<1>1. \A f \in Fds : fds[f] \in Sockets \cup Files
  BY DEF FreeFds, TypeOK
<1>2. \A x \in Sockets : x.owner \in Servers
  BY DEF Sockets
<1>3. \A x \in Files : x.owner \in Readers
  BY DEF Files
<1>4. o \in [Fds -> Threads \ {t}]
  BY <1>1, <1>2, <1>3, Apart
<1>5. IsFiniteSet(Threads)
      /\ Cardinality(Threads) = Cardinality(Servers) + Cardinality(Readers)
  <2>1. IsFiniteSet(Servers) /\ IsFiniteSet(Readers) /\ Servers \cap Readers = {}
    BY DescriptorAssumption
  <2>2. /\ IsFiniteSet(Servers \cup Readers)
        /\ Cardinality(Servers \cup Readers) = Cardinality(Servers)
             + Cardinality(Readers) - Cardinality(Servers \cap Readers)
    BY <2>1, FS_Union
  <2>3. Cardinality(Servers \cap Readers) = 0
    BY <2>1, FS_EmptySet
  <2>4. Cardinality(Servers) \in Nat /\ Cardinality(Readers) \in Nat
    BY <2>1, FS_CardinalityType
  <2> QED
    BY <2>2, <2>3, <2>4
<1>6. IsFiniteSet(Threads \ {t})
      /\ Cardinality(Threads \ {t}) = Cardinality(Threads) - 1
  BY <1>5, FS_RemoveElement
<1>7. IsFiniteSet(Fds) /\ Cardinality(Fds) = MaxFd
  <2>1. MaxFd \in Nat /\ 0 \in Int /\ MaxFd - 1 \in Int
    BY DescriptorAssumption
  <2>2. /\ IsFiniteSet(0 .. MaxFd - 1)
        /\ Cardinality(0 .. MaxFd - 1) =
             IF 0 > MaxFd - 1 THEN 0 ELSE MaxFd - 1 - 0 + 1
    BY <2>1, FS_Interval
  <2> QED
    BY <2>1, <2>2 DEF Fds
<1>8. Cardinality(Threads \ {t}) < Cardinality(Fds)
  <2>1. Cardinality(Threads) \in Nat
    BY <1>5, FS_CardinalityType
  <2>2. Cardinality(Threads) =< MaxFd /\ MaxFd \in Nat
    BY <1>5, DescriptorAssumption
  <2> QED
    BY <2>1, <2>2, <1>6, <1>7
<1> HIDE DEF o, Threads
<1>9. \E x, y \in Fds : x # y /\ o[x] = o[y]
  BY <1>4, <1>6, <1>7, <1>8, FS_PigeonHole
<1>10. PICK x \in Fds, y \in Fds : x # y /\ fds[x].owner = fds[y].owner
  BY <1>9 DEF o
<1>11. CASE fds[x] \in Sockets /\ fds[y] \in Sockets
  BY <1>10, <1>11 DEF SocketsHeld
<1>12. CASE fds[x] \in Files /\ fds[y] \in Files
  BY <1>10, <1>12 DEF FilesHeld
<1> QED
  BY <1>1, <1>2, <1>3, <1>10, <1>11, <1>12, Apart

-----------------------------------------------------------------------------
(* Types and labels: every step, of any callers, keeps them *)

Table == [Fds -> {FREE} \cup Sockets \cup Files]

\* A step of a server's thread that leaves a table, a number and a label.
LEMMA ServerKeepsTypes ==
    ASSUME Basic, NEW s \in Servers,
           NEW l \in Attempt \cup {"idle", "true", "false"}, Goto(s, l),
           fds' \in Table, server_socket' \in [Servers -> Fds \cup {-1}],
           faults' \in 0 .. MaxFaults, misled' \in BOOLEAN,
           UNCHANGED <<fieldVars, fileVars, crashed>>
    PROVE  Basic'
<1> USE DEF fieldVars, fileVars, Goto
<1>1. at \in [Servers \cup Readers -> Labels]
  BY DEF Basic, TypeOK, Labels, Attempt
<1>2. at'[s] = l /\ \A t \in Servers \cup Readers : t # s => at'[t] = at[t]
  BY <1>1
<1>3. \A r \in Readers : at'[r] = at[r]
  BY <1>2, Apart
<1>4. at' \in [Servers \cup Readers -> Labels]
  BY <1>1 DEF Labels
<1>5. TypeOK'
  BY <1>4 DEF Basic, TypeOK, Table, Labels, Attempt
<1>6. LabelsOK'
  BY <1>2, <1>3 DEF Basic, LabelsOK
<1> QED
  BY <1>5, <1>6 DEF Basic

\* A step of a reader that leaves a table, a handle, a label and a path.
LEMMA ReaderKeepsTypes ==
    ASSUME Basic, NEW r \in Readers, NEW l \in {"idle", "lstat", "fopen"},
           NEW p \in Paths \cup {NULL}, l # "idle" => p # NULL,
           at' = [at EXCEPT ![r] = l], path' = [path EXCEPT ![r] = p],
           fds' \in Table, handle' \in [Readers -> Fds \cup {NULL}],
           files' \in [Paths -> Kinds], faults' \in 0 .. MaxFaults,
           crashed' \in BOOLEAN,
           UNCHANGED <<fieldVars, server_socket, misled>>
    PROVE  Basic'
<1> USE DEF fieldVars
<1>1. /\ at \in [Servers \cup Readers -> Labels]
      /\ path \in [Readers -> Paths \cup {NULL}]
  BY DEF Basic, TypeOK, Labels, Attempt
<1>2. at'[r] = l /\ \A t \in Servers \cup Readers : t # r => at'[t] = at[t]
  BY <1>1
<1>3. \A s \in Servers : at'[s] = at[s]
  BY <1>2, Apart
<1>4. path'[r] = p /\ \A q \in Readers : q # r => path'[q] = path[q]
  BY <1>1
<1>5. at' \in [Servers \cup Readers -> Labels]
  BY <1>1 DEF Labels
<1>6. path' \in [Readers -> Paths \cup {NULL}]
  BY <1>1
<1>7. TypeOK'
  BY <1>5, <1>6 DEF Basic, TypeOK, Table, Labels, Attempt
<1>8. LabelsOK'
  BY <1>2, <1>3, <1>4 DEF Basic, LabelsOK
<1> QED
  BY <1>7, <1>8 DEF Basic

\* Init: the threads are idle and nothing is open.
LEMMA InitBasic == Init => Basic
<1> SUFFICES ASSUME Init PROVE Basic
  OBVIOUS
<1>1. PICK c \in Configs : /\ server_type = [s \in Servers |-> c[s].type]
                           /\ port_number = [s \in Servers |-> c[s].port]
  BY DEF Init
<1>2. c \in [Servers -> [type : {0, 1, 2}, port : Nat]]
  BY DescriptorAssumption
<1>3. server_type \in [Servers -> {0, 1, 2}] /\ port_number \in [Servers -> Nat]
  BY <1>1, <1>2
<1>4. 0 \in 0 .. MaxFaults
  BY DescriptorAssumption
<1>5. TypeOK
  BY <1>3, <1>4 DEF Init, TypeOK
<1>6. LabelsOK
  BY DEF Init, LabelsOK
<1> QED
  BY <1>5, <1>6 DEF Basic

\* A server's thread and its caller, even one that closes what is not its own.
LEMMA ServerBasic ==
    ASSUME Basic, NEW s \in Servers, ServerStep(s) \/ StopServer(s)
    PROVE  Basic'
<1> DEFINE h == server_socket[s]
<1>1. /\ fds \in Table /\ server_socket \in [Servers -> Fds \cup {-1}]
      /\ faults \in 0 .. MaxFaults /\ MaxFaults \in Nat /\ misled \in BOOLEAN
      /\ server_type[s] \in {0, 1, 2} /\ port_number[s] \in Nat
  BY DescriptorAssumption DEF Basic, TypeOK, Table
<1>2. Fault \/ UNCHANGED faults => faults' \in 0 .. MaxFaults
  BY <1>1 DEF Fault
<1>3. ASSUME NEW l \in Attempt, NEW obj, NEW next \in Attempt \cup {"true"},
             OnSocket(s, l, obj, next), fds[h] \in Sockets => obj \in Sockets
      PROVE  Basic'
  <2>1. /\ fds' = [fds EXCEPT ![h] = obj] /\ Goto(s, next) /\ IsSocket(h)
        /\ UNCHANGED <<fieldVars, fileVars, server_socket, misled, faults, crashed>>
    BY <1>3 DEF OnSocket
  <2>2. h \in Fds => obj \in Sockets
    BY <1>3, <2>1, SocketIs DEF Basic
  <2>3. fds' \in Table
    BY <1>1, <2>1, <2>2 DEF Table
  <2>4. next \in Attempt \cup {"idle", "true", "false"}
    OBVIOUS
  <2> QED
    BY <1>1, <2>1, <2>3, <2>4, ServerKeepsTypes
<1>4. CASE SocketFail(s)
  <2>1. misled' \in BOOLEAN
    BY <1>1, <1>4, Zenon DEF SocketFail
  <2>2. faults' \in 0 .. MaxFaults
    BY <1>2, <1>4 DEF SocketFail
  <2> QED
    BY <1>1, <1>4, <2>1, <2>2, ServerKeepsTypes DEF SocketFail
<1>5. CASE SocketOk(s)
  <2>1. Min(FreeFds) \in Fds
    BY <1>5, Allotted DEF SocketOk
  <2>2. Socket(s) \in Sockets
    BY <1>5 DEF SocketOk, Socket, Sockets
  <2>3. fds' \in Table
    BY <1>1, <1>5, <2>1, <2>2 DEF SocketOk, Allot, Table
  <2>4. server_socket' \in [Servers -> Fds \cup {-1}]
    BY <1>1, <1>5, <2>1 DEF SocketOk
  <2> QED
    BY <1>1, <1>5, <2>3, <2>4, ServerKeepsTypes DEF SocketOk, Attempt
<1>6. CASE SetOptions(s)
  <2> DEFINE obj == [fds[h] EXCEPT !.reuse = TRUE]
  <2>1. fds[h] \in Sockets => obj \in Sockets
    BY DEF Sockets
  <2> QED
    BY <1>3, <1>6, <2>1 DEF SetOptions, Attempt
<1>7. CASE SetTimeout(s)
  <2> DEFINE obj == [fds[h] EXCEPT !.timeout = TRUE]
  <2>1. fds[h] \in Sockets => obj \in Sockets
    BY DEF Sockets
  <2> QED
    BY <1>3, <1>7, <2>1 DEF SetTimeout, Attempt
<1>8. CASE Bind(s)
  <2> DEFINE obj == [fds[h] EXCEPT !.port = port_number[s]]
  <2>1. fds[h] \in Sockets => obj \in Sockets
    BY <1>1 DEF Sockets
  <2> QED
    BY <1>3, <1>8, <2>1 DEF Bind, Attempt
<1>9. CASE Listen(s)
  <2> DEFINE obj == [fds[h] EXCEPT !.listening = TRUE]
  <2>1. fds[h] \in Sockets => obj \in Sockets
    BY DEF Sockets
  <2> QED
    BY <1>3, <1>9, <2>1 DEF Listen, Attempt
<1>10. CASE StepFail(s)
  <2>1. faults' \in 0 .. MaxFaults
    BY <1>2, <1>10 DEF StepFail, CallFails
  <2> QED
    BY <1>1, <1>10, <2>1, ServerKeepsTypes DEF StepFail
<1>11. CloseSocket(s) => /\ fds' \in Table
                         /\ server_socket' \in [Servers -> Fds \cup {-1}]
  BY <1>1 DEF CloseSocket, Closed, Table
<1>12. CASE HandleFalse(s)
  <2>1. fds' \in Table /\ server_socket' \in [Servers -> Fds \cup {-1}]
    BY <1>1, <1>11, <1>12 DEF HandleFalse
  <2> QED
    BY <1>1, <1>12, <2>1, ServerKeepsTypes DEF HandleFalse
<1>13. CASE StopServer(s)
  BY <1>1, <1>11, <1>13, ServerKeepsTypes DEF StopServer
<1> QED
  BY <1>4, <1>5, <1>6, <1>7, <1>8, <1>9, <1>10, <1>12, <1>13 DEF ServerStep

\* A reader, whatever its handle has become.
LEMMA ReaderBasic ==
    ASSUME Basic, NEW r \in Readers, ReaderStep(r)
    PROVE  Basic'
<1> USE DEF fieldVars, fileVars, Goto
<1>1. /\ fds \in Table /\ handle \in [Readers -> Fds \cup {NULL}]
      /\ path \in [Readers -> Paths \cup {NULL}] /\ files \in [Paths -> Kinds]
      /\ faults \in 0 .. MaxFaults /\ MaxFaults \in Nat /\ crashed \in BOOLEAN
      /\ at \in [Servers \cup Readers -> Labels]
      /\ at[r] \in {"idle", "lstat", "fopen"}
      /\ at[r] # "idle" => path[r] \in Paths
  BY DescriptorAssumption
     DEF Basic, TypeOK, LabelsOK, Table, Labels, Attempt
<1>2. at = [at EXCEPT ![r] = at[r]] /\ path = [path EXCEPT ![r] = path[r]]
  BY <1>1
<1>3. ASSUME NEW p \in Paths, FreeFds # {}, Allot(File(r, p)),
             handle' = [handle EXCEPT ![r] = Min(FreeFds)],
             files' = [files EXCEPT ![p] = "plain"]
      PROVE  /\ fds' \in Table /\ handle' \in [Readers -> Fds \cup {NULL}]
             /\ files' \in [Paths -> Kinds]
  <2>1. Min(FreeFds) \in Fds
    BY <1>3, Allotted
  <2>2. File(r, p) \in Files
    BY DEF File, Files
  <2> QED
    BY <1>1, <1>3, <2>1, <2>2 DEF Allot, Table, Kinds
<1>4. CASE OpenNothing(r)
  BY <1>4 DEF OpenNothing, vars, Basic, TypeOK, LabelsOK
<1>5. CASE \E p \in Paths : Resolve(r, p)
  <2>1. PICK p \in Paths : Resolve(r, p)
    BY <1>5
  <2> QED
    BY <1>1, <2>1, Apart, ReaderKeepsTypes DEF Resolve
<1>6. CASE \E p \in Paths, m \in Modes : OpenFile(r, p, m)
  <2>1. PICK p \in Paths, m \in Modes : OpenFile(r, p, m)
    BY <1>6
  <2>2. /\ fds' \in Table /\ handle' \in [Readers -> Fds \cup {NULL}]
        /\ files' \in [Paths -> Kinds]
    BY <1>3, <2>1 DEF OpenFile, Opens
  <2>3. at' = [at EXCEPT ![r] = "idle"]
    BY <1>2, <2>1 DEF OpenFile
  <2> QED
    BY <1>1, <2>1, <2>2, <2>3, ReaderKeepsTypes DEF OpenFile
<1>7. CASE LstatFail(r)
  BY <1>1, <1>7, ReaderKeepsTypes DEF LstatFail
<1>8. CASE Lstat(r)
  <2>1. path[r] \in Paths /\ path' = [path EXCEPT ![r] = path[r]]
    BY <1>1, <1>2, <1>8 DEF Lstat
  <2> QED
    BY <1>1, <1>8, <2>1, Apart, ReaderKeepsTypes DEF Lstat
<1>9. CASE Fclose(r)
  <2>1. fds' \in Table /\ handle' \in [Readers -> Fds \cup {NULL}]
    BY <1>1, <1>9 DEF Fclose, Closed, Table
  <2>2. at' = [at EXCEPT ![r] = "idle"]
    BY <1>2, <1>9 DEF Fclose
  <2> QED
    BY <1>1, <1>9, <2>1, <2>2, ReaderKeepsTypes DEF Fclose
<1>10. CASE \E m \in Modes : FopenOk(r, m)
  <2>1. PICK m \in Modes : FopenOk(r, m)
    BY <1>10
  <2>2. PICK p \in Paths : p = path[r]
    BY <1>1, <2>1 DEF FopenOk
  <2>3. /\ fds' \in Table /\ handle' \in [Readers -> Fds \cup {NULL}]
        /\ files' \in [Paths -> Kinds]
    BY <1>3, <2>1, <2>2 DEF FopenOk, Opens
  <2>4. path' = [path EXCEPT ![r] = p]
    BY <1>2, <2>1, <2>2 DEF FopenOk
  <2> QED
    BY <1>1, <2>1, <2>3, <2>4, ReaderKeepsTypes DEF FopenOk
<1>11. CASE \E m \in Modes : FopenCrash(r, m)
  <2>1. PICK m \in Modes : FopenCrash(r, m)
    BY <1>11
  <2>2. faults' \in 0 .. MaxFaults
    BY <1>1, <2>1 DEF FopenCrash, Fault
  <2> QED
    BY <2>1, <2>2 DEF FopenCrash, Basic, TypeOK, LabelsOK
<1> QED
  BY <1>4, <1>5, <1>6, <1>7, <1>8, <1>9, <1>10, <1>11 DEF ReaderStep

\* Every step keeps types and labels.
LEMMA NextBasic == Basic /\ [Next]_vars => Basic'
<1> SUFFICES ASSUME Basic, [Next]_vars PROVE Basic'
  OBVIOUS
<1> USE DEF fieldVars, fileVars
<1>1. CASE UNCHANGED vars
  BY <1>1 DEF vars, Basic, TypeOK, LabelsOK
<1>2. CASE \E s \in Servers : ServerStep(s) \/ StopServer(s)
  BY <1>2, ServerBasic
<1>3. CASE \E r \in Readers : ReaderStep(r)
  BY <1>3, ReaderBasic
<1>4. CASE \E p \in Paths, k \in Kinds : FileChanges(p, k)
  BY <1>4 DEF FileChanges, Basic, TypeOK, LabelsOK
<1> QED
  BY <1>1, <1>2, <1>3, <1>4 DEF Next

-----------------------------------------------------------------------------
(* Ownership: every step keeps it, unless a caller was misled *)

\* Init: nothing is open.
LEMMA InitOwned == Init => Owned
<1> SUFFICES ASSUME Init PROVE Owned
  OBVIOUS
<1>1. \A f \in Fds : fds[f] \notin Sockets /\ fds[f] \notin Files
  BY Apart DEF Init
<1>2. \A s \in Servers : at[s] = "idle" /\ server_socket[s] = -1
  BY DEF Init
<1>3. \A r \in Readers : at[r] = "idle" /\ handle[r] = NULL
  BY DEF Init
<1>4. SocketsOK
  BY <1>2 DEF SocketsOK, SocketOK, InUse, Attempt
<1>5. PortsOK
  BY <1>1 DEF PortsOK, Listens
<1>6. HandlesOK
  BY <1>3 DEF HandlesOK, HandleOK
<1>7. FilesHeld /\ TidyOK
  BY <1>1 DEF FilesHeld, TidyOK, SocketsHeld
<1> QED
  BY <1>4, <1>5, <1>6, <1>7 DEF Owned

\* A step of establish_server that fails changes only where its thread is: the
\* socket, and the number of it, stay; and the number is in use.
LEMMA FailKeepsOwned ==
    ASSUME Inv, NEW s \in Servers, server_socket[s] # -1 => InUse(s),
           Goto(s, "false"),
           UNCHANGED <<fieldVars, fileVars, server_socket, fds>>
    PROVE  Owned'
<1> USE DEF Inv, Basic, Owned, fieldVars, fileVars, Goto
<1>1. at \in [Servers \cup Readers -> Labels]
  BY DEF TypeOK, Labels, Attempt
<1>2. at'[s] = "false" /\ \A t \in Servers \cup Readers : t # s => at'[t] = at[t]
  BY <1>1
<1>3. \A r \in Readers : at'[r] = at[r]
  BY <1>2, Apart
<1>4. SocketsOK'
  <2> SUFFICES ASSUME NEW u \in Servers PROVE SocketOK(u)'
    BY DEF SocketsOK
  <2>1. SocketOK(u)
    BY DEF SocketsOK
  <2>2. CASE u = s
    BY <1>2, <2>1, <2>2 DEF SocketOK, InUse, Attempt
  <2>3. CASE u # s
    BY <1>2, <2>1, <2>3 DEF SocketOK, InUse, Attempt
  <2> QED
    BY <2>2, <2>3
<1>5. PortsOK' /\ FilesHeld'
  BY DEF PortsOK, FilesHeld, Listens
<1>6. HandlesOK'
  BY <1>3 DEF HandlesOK, HandleOK, File
<1>7. TidyOK'
  <2> SUFFICES ASSUME policy # "retry", NEW f \in Fds, fds[f] \in Sockets
               PROVE  server_socket[fds[f].owner] = f /\ at'[fds[f].owner] # "idle"
    BY DEF TidyOK, SocketsHeld
  <2>1. fds[f].owner \in Servers
    BY DEF Sockets
  <2> QED
    BY <1>2, <2>1 DEF TidyOK, SocketsHeld
<1> QED
  BY <1>4, <1>5, <1>6, <1>7

\* A call on the socket of s that succeeds leaves obj there, in which s has got
\* as far as the label next says.
LEMMA OnSocketKeepsOwned ==
    ASSUME Inv, NEW s \in Servers, NEW l \in Attempt, NEW obj \in Sockets,
           NEW next \in {"timeout", "bind", "listen", "true"},
           OnSocket(s, l, obj, next),
           obj.owner = s, obj.kind = server_type[s], obj.reuse,
           next # "timeout" => obj.timeout,
           next \in {"listen", "true"} => obj.port = port_number[s],
           obj.listening <=> next = "true",
           obj.listening => ~PortTaken(s)
    PROVE  Owned'
<1> DEFINE h == server_socket[s]
<1> USE DEF Inv, Basic, Owned, fieldVars, fileVars, Goto
<1>0. /\ UNCHANGED <<fieldVars, fileVars, server_socket>>
      /\ at[s] = l /\ at' = [at EXCEPT ![s] = next]
      /\ fds' = [fds EXCEPT ![h] = obj]
  BY DEF OnSocket
<1>1. /\ at \in [Servers \cup Readers -> Labels]
      /\ fds \in [Fds -> {FREE} \cup Sockets \cup Files]
      /\ server_socket \in [Servers -> Fds \cup {-1}]
      /\ handle \in [Readers -> Fds \cup {NULL}]
  BY DEF TypeOK, Labels, Attempt
<1>2. at'[s] = next /\ \A t \in Servers \cup Readers : t # s => at'[t] = at[t]
  BY <1>0, <1>1
<1>3. \A r \in Readers : at'[r] = at[r]
  BY <1>2, Apart
<1>4. /\ h \in Fds /\ fds[h] \in Sockets /\ fds[h].owner = s
      /\ ~fds[h].listening
  <2>1. SocketOK(s)
    BY DEF SocketsOK
  <2> QED
    BY <1>0, <1>1, <2>1 DEF SocketOK, InUse, Attempt
<1>5. fds'[h] = obj /\ \A f \in Fds : f # h => fds'[f] = fds[f]
  BY <1>0, <1>1, <1>4
<1>6. SocketsOK'
  <2> SUFFICES ASSUME NEW u \in Servers PROVE SocketOK(u)'
    BY DEF SocketsOK
  <2>1. SocketOK(u)
    BY DEF SocketsOK
  <2>2. CASE u = s
    BY <1>0, <1>2, <1>4, <1>5, <2>2, Apart DEF SocketOK, Attempt
  <2>3. CASE u # s
    <3>1. at'[u] = at[u] /\ (InUse(u)' <=> InUse(u))
      BY <1>0, <1>2, <2>3 DEF InUse
    <3>2. InUse(u) => server_socket[u] # h
      BY <1>4, <2>1, <2>3 DEF SocketOK
    <3>3. InUse(u) => fds'[server_socket[u]] = fds[server_socket[u]]
      BY <1>1, <1>5, <3>2 DEF InUse
    <3>4. at[u] \in Attempt \cup {"true"} => InUse(u)
      BY <2>1 DEF SocketOK, InUse, Attempt
    <3> QED
      BY <1>0, <2>1, <3>1, <3>3, <3>4 DEF SocketOK, Attempt
  <2> QED
    BY <2>2, <2>3
<1>7. PortsOK'
  <2> SUFFICES ASSUME NEW f \in Fds, NEW g \in Fds,
                      (Listens(f) /\ Listens(g) /\ fds[f].port = fds[g].port)'
               PROVE  f = g
    BY DEF PortsOK
  <2>1. \A e \in Fds \ {h} : Listens(e) => fds[e].port # port_number[s] \/ ~obj.listening
    BY SocketIs DEF PortTaken, Listens
  <2>2. obj.listening => obj.port = port_number[s]
    OBVIOUS
  <2>3. CASE f # h /\ g # h
    BY <1>5, <2>3 DEF PortsOK, Listens
  <2>4. CASE f = h /\ g # h
    BY <1>5, <2>1, <2>2, <2>4 DEF Listens
  <2>5. CASE g = h /\ f # h
    BY <1>5, <2>1, <2>2, <2>5 DEF Listens
  <2> QED
    BY <2>3, <2>4, <2>5
<1>8. HandlesOK'
  <2> SUFFICES ASSUME NEW r \in Readers PROVE HandleOK(r)'
    BY DEF HandlesOK
  <2>1. HandleOK(r)
    BY DEF HandlesOK
  <2>2. handle[r] # NULL => handle[r] # h
    <3>1. path[r] # NULL => File(r, path[r]) \in Files
      BY DEF TypeOK, File, Files
    <3> QED
      BY <1>4, <2>1, <3>1, Apart DEF HandleOK
  <2>3. handle[r] # NULL => fds'[handle[r]] = fds[handle[r]]
    BY <1>1, <1>5, <2>2
  <2> QED
    BY <1>0, <1>3, <2>1, <2>3 DEF HandleOK, File
<1>9. FilesHeld'
  <2> SUFFICES ASSUME NEW f \in Fds, fds'[f] \in Files
               PROVE  handle'[fds'[f].owner] = f
    BY DEF FilesHeld
  <2>1. f # h
    BY <1>5, Apart
  <2> QED
    BY <1>0, <1>5, <2>1 DEF FilesHeld
<1>10. TidyOK'
  <2> SUFFICES ASSUME policy # "retry", NEW f \in Fds, fds'[f] \in Sockets
               PROVE  /\ server_socket[fds'[f].owner] = f
                      /\ at'[fds'[f].owner] # "idle"
    BY <1>0 DEF TidyOK, SocketsHeld
  <2>1. CASE f = h
    BY <1>2, <1>5, <2>1
  <2>2. CASE f # h
    <3>1. /\ fds'[f] = fds[f] /\ server_socket[fds[f].owner] = f
          /\ at[fds[f].owner] # "idle"
      BY <1>5, <2>2 DEF TidyOK, SocketsHeld
    <3>2. fds[f].owner \in Servers
      BY <3>1 DEF Sockets
    <3> QED
      BY <1>2, <3>1, <3>2
  <2> QED
    BY <2>1, <2>2
<1> QED
  BY <1>6, <1>7, <1>8, <1>9, <1>10

\* socket(2) succeeds: the lowest free number goes to the server.
LEMMA SocketOkKeepsOwned ==
    ASSUME Inv, NEW s \in Servers, SocketOk(s)
    PROVE  Owned'
<1> DEFINE h == Min(FreeFds)
           obj == Socket(s)
<1> USE DEF Inv, Basic, Owned, fieldVars, fileVars
<1>0. /\ UNCHANGED <<fieldVars, fileVars>>
      /\ at[s] = "idle" /\ at' = [at EXCEPT ![s] = "options"]
      /\ fds' = [fds EXCEPT ![h] = obj]
      /\ server_socket' = [server_socket EXCEPT ![s] = h]
  BY DEF SocketOk, Allot, Goto
<1>1. /\ at \in [Servers \cup Readers -> Labels]
      /\ fds \in [Fds -> {FREE} \cup Sockets \cup Files]
      /\ server_socket \in [Servers -> Fds \cup {-1}]
      /\ handle \in [Readers -> Fds \cup {NULL}]
  BY DEF TypeOK, Labels, Attempt
<1>2. /\ at'[s] = "options"
      /\ \A t \in Servers \cup Readers : t # s => at'[t] = at[t]
  BY <1>0, <1>1
<1>3. \A r \in Readers : at'[r] = at[r]
  BY <1>2, Apart
<1>4. h \in Fds /\ fds[h] = FREE
  BY Allotted DEF SocketOk
<1>5. /\ obj \in Sockets /\ obj.owner = s /\ obj.kind = server_type[s]
      /\ ~obj.listening
  BY DEF Socket, Sockets, SocketOk
<1> HIDE DEF h, obj
<1>6. fds'[h] = obj /\ \A f \in Fds : f # h => fds'[f] = fds[f]
  BY <1>0, <1>1, <1>4
<1>7. /\ server_socket'[s] = h
      /\ \A u \in Servers : u # s => server_socket'[u] = server_socket[u]
  BY <1>0, <1>1
<1>8. SocketsOK'
  <2> SUFFICES ASSUME NEW u \in Servers PROVE SocketOK(u)'
    BY DEF SocketsOK
  <2>1. SocketOK(u)
    BY DEF SocketsOK
  <2>2. CASE u = s
    BY <1>0, <1>2, <1>4, <1>5, <1>6, <1>7, <2>2, Apart DEF SocketOK, Attempt
  <2>3. CASE u # s
    <3>1. /\ at'[u] = at[u] /\ server_socket'[u] = server_socket[u]
          /\ InUse(u)' <=> InUse(u)
      BY <1>0, <1>2, <1>7, <2>3 DEF InUse
    <3>2. InUse(u) => fds'[server_socket[u]] = fds[server_socket[u]]
      BY <1>1, <1>4, <1>6, <2>1, Apart DEF SocketOK, InUse
    <3>3. at[u] \in Attempt \cup {"true"} => InUse(u)
      BY <2>1 DEF SocketOK, InUse, Attempt
    <3> QED
      BY <1>0, <2>1, <3>1, <3>2, <3>3 DEF SocketOK, Attempt
  <2> QED
    BY <2>2, <2>3
<1>9. PortsOK'
  <2> SUFFICES ASSUME NEW f \in Fds, NEW g \in Fds,
                      (Listens(f) /\ Listens(g) /\ fds[f].port = fds[g].port)'
               PROVE  f = g
    BY DEF PortsOK
  <2>1. f # h /\ g # h
    BY <1>5, <1>6 DEF Listens
  <2> QED
    BY <1>6, <2>1 DEF PortsOK, Listens
<1>10. HandlesOK'
  <2> SUFFICES ASSUME NEW r \in Readers PROVE HandleOK(r)'
    BY DEF HandlesOK
  <2>1. HandleOK(r)
    BY DEF HandlesOK
  <2>2. handle[r] # NULL => handle[r] # h
    <3>1. path[r] # NULL => File(r, path[r]) \in Files
      BY DEF TypeOK, File, Files
    <3> QED
      BY <1>4, <2>1, <3>1, Apart DEF HandleOK
  <2>3. handle[r] # NULL => fds'[handle[r]] = fds[handle[r]]
    BY <1>1, <1>6, <2>2
  <2> QED
    BY <1>0, <1>3, <2>1, <2>3 DEF HandleOK, File
<1>11. FilesHeld'
  <2> SUFFICES ASSUME NEW f \in Fds, fds'[f] \in Files
               PROVE  handle'[fds'[f].owner] = f
    BY DEF FilesHeld
  <2>1. f # h
    BY <1>5, <1>6, Apart
  <2> QED
    BY <1>0, <1>6, <2>1 DEF FilesHeld
<1>12. TidyOK'
  <2> SUFFICES ASSUME policy # "retry", NEW f \in Fds, fds'[f] \in Sockets
               PROVE  /\ server_socket'[fds'[f].owner] = f
                      /\ at'[fds'[f].owner] # "idle"
    BY <1>0 DEF TidyOK, SocketsHeld
  <2>1. CASE f = h
    BY <1>2, <1>5, <1>6, <1>7, <2>1
  <2>2. CASE f # h
    <3>1. /\ fds'[f] = fds[f] /\ server_socket[fds[f].owner] = f
          /\ at[fds[f].owner] # "idle"
      BY <1>6, <2>2 DEF TidyOK, SocketsHeld
    <3>2. fds[f].owner \in Servers /\ fds[f].owner # s
      BY <1>0, <3>1 DEF Sockets
    <3> QED
      BY <1>2, <1>7, <3>1, <3>2
  <2> QED
    BY <2>1, <2>2
<1> QED
  BY <1>8, <1>9, <1>10, <1>11, <1>12

\* The caller closes the socket of s: no other server and no reader has that
\* number, and s does not count as having it any more.
LEMMA CloseKeepsOwned ==
    ASSUME Inv, NEW s \in Servers, InUse(s), CloseSocket(s), Goto(s, "idle"),
           UNCHANGED <<fieldVars, fileVars>>
    PROVE  Owned'
<1> DEFINE h == server_socket[s]
<1> USE DEF Inv, Basic, Owned, fieldVars, fileVars
<1>0. at' = [at EXCEPT ![s] = "idle"] /\ fds' = [fds EXCEPT ![h] = FREE]
  BY DEF Goto, CloseSocket, Closed
<1>1. /\ at \in [Servers \cup Readers -> Labels]
      /\ fds \in [Fds -> {FREE} \cup Sockets \cup Files]
      /\ server_socket \in [Servers -> Fds \cup {-1}]
      /\ handle \in [Readers -> Fds \cup {NULL}]
  BY DEF TypeOK, Labels, Attempt
<1>2. /\ at'[s] = "idle"
      /\ \A t \in Servers \cup Readers : t # s => at'[t] = at[t]
  BY <1>0, <1>1
<1>3. \A r \in Readers : at'[r] = at[r]
  BY <1>2, Apart
<1>4. h \in Fds /\ fds[h] \in Sockets /\ fds[h].owner = s
  BY <1>1 DEF SocketsOK, SocketOK, InUse
<1>5. fds'[h] = FREE /\ \A f \in Fds : f # h => fds'[f] = fds[f]
  BY <1>0, <1>1, <1>4
<1>6. /\ ~InUse(s)'
      /\ \A u \in Servers : u # s => server_socket'[u] = server_socket[u]
  BY <1>1, <1>2 DEF CloseSocket, InUse
<1>7. SocketsOK'
  <2> SUFFICES ASSUME NEW u \in Servers PROVE SocketOK(u)'
    BY DEF SocketsOK
  <2>1. SocketOK(u)
    BY DEF SocketsOK
  <2>2. CASE u = s
    BY <1>2, <1>6, <2>2 DEF SocketOK, Attempt
  <2>3. CASE u # s
    <3>1. /\ at'[u] = at[u] /\ server_socket'[u] = server_socket[u]
          /\ InUse(u)' <=> InUse(u)
      BY <1>2, <1>6, <2>3 DEF InUse
    <3>2. InUse(u) => server_socket[u] # h
      BY <1>4, <2>1, <2>3 DEF SocketOK
    <3>3. InUse(u) => fds'[server_socket[u]] = fds[server_socket[u]]
      BY <1>1, <1>5, <3>2 DEF InUse
    <3>4. at[u] \in Attempt \cup {"true"} => InUse(u)
      BY <2>1 DEF SocketOK, InUse, Attempt
    <3> QED
      BY <2>1, <3>1, <3>3, <3>4 DEF SocketOK, Attempt
  <2> QED
    BY <2>2, <2>3
<1>8. PortsOK'
  <2> SUFFICES ASSUME NEW f \in Fds, NEW g \in Fds,
                      (Listens(f) /\ Listens(g) /\ fds[f].port = fds[g].port)'
               PROVE  f = g
    BY DEF PortsOK
  <2>1. f # h /\ g # h
    BY <1>5, Apart DEF Listens
  <2> QED
    BY <1>5, <2>1 DEF PortsOK, Listens
<1>9. HandlesOK'
  <2> SUFFICES ASSUME NEW r \in Readers PROVE HandleOK(r)'
    BY DEF HandlesOK
  <2>1. HandleOK(r)
    BY DEF HandlesOK
  <2>2. handle[r] # NULL => handle[r] # h
    <3>1. path[r] # NULL => File(r, path[r]) \in Files
      BY DEF TypeOK, File, Files
    <3> QED
      BY <1>4, <2>1, <3>1, Apart DEF HandleOK
  <2>3. handle[r] # NULL => fds'[handle[r]] = fds[handle[r]]
    BY <1>1, <1>5, <2>2
  <2> QED
    BY <1>3, <2>1, <2>3 DEF HandleOK, File
<1>10. FilesHeld'
  <2> SUFFICES ASSUME NEW f \in Fds, fds'[f] \in Files
               PROVE  handle'[fds'[f].owner] = f
    BY DEF FilesHeld
  <2>1. f # h
    BY <1>5, Apart
  <2> QED
    BY <1>5, <2>1 DEF FilesHeld
<1>11. TidyOK'
  <2> SUFFICES ASSUME policy # "retry", NEW f \in Fds, fds'[f] \in Sockets
               PROVE  /\ server_socket'[fds'[f].owner] = f
                      /\ at'[fds'[f].owner] # "idle"
    BY DEF TidyOK, SocketsHeld
  <2>1. /\ f # h /\ fds'[f] = fds[f] /\ server_socket[fds[f].owner] = f
        /\ at[fds[f].owner] # "idle"
    BY <1>5, Apart DEF TidyOK, SocketsHeld
  <2>2. fds[f].owner \in Servers /\ fds[f].owner # s
    BY <2>1 DEF Sockets
  <2> QED
    BY <1>2, <1>6, <2>1, <2>2
<1> QED
  BY <1>7, <1>8, <1>9, <1>10, <1>11

\* A caller that was told false, and has nothing to close or does not care.
LEMMA RetryKeepsOwned ==
    ASSUME Inv, NEW s \in Servers, policy # "retry" => server_socket[s] = -1,
           Goto(s, "idle"), at[s] = "false",
           UNCHANGED <<fieldVars, fileVars, server_socket, fds>>
    PROVE  Owned'
<1> USE DEF Inv, Basic, Owned, fieldVars, fileVars, Goto
<1>1. at \in [Servers \cup Readers -> Labels]
  BY DEF TypeOK, Labels, Attempt
<1>2. at'[s] = "idle" /\ \A t \in Servers \cup Readers : t # s => at'[t] = at[t]
  BY <1>1
<1>3. \A r \in Readers : at'[r] = at[r]
  BY <1>2, Apart
<1>4. SocketsOK'
  <2> SUFFICES ASSUME NEW u \in Servers PROVE SocketOK(u)'
    BY DEF SocketsOK
  <2>1. SocketOK(u)
    BY DEF SocketsOK
  <2>2. CASE u = s
    BY <1>2, <2>1, <2>2 DEF SocketOK, InUse, Attempt
  <2>3. CASE u # s
    BY <1>2, <2>1, <2>3 DEF SocketOK, InUse, Attempt
  <2> QED
    BY <2>2, <2>3
<1>5. PortsOK' /\ FilesHeld'
  BY DEF PortsOK, FilesHeld, Listens
<1>6. HandlesOK'
  BY <1>3 DEF HandlesOK, HandleOK, File
<1>7. TidyOK'
  <2> SUFFICES ASSUME policy # "retry", NEW f \in Fds, fds[f] \in Sockets
               PROVE  server_socket[fds[f].owner] = f /\ at'[fds[f].owner] # "idle"
    BY DEF TidyOK, SocketsHeld
  <2>1. server_socket[fds[f].owner] = f /\ at[fds[f].owner] # "idle"
    BY DEF TidyOK, SocketsHeld
  <2>2. fds[f].owner \in Servers /\ fds[f].owner # s
    BY <2>1, Apart DEF Sockets
  <2> QED
    BY <1>2, <2>1, <2>2
<1> QED
  BY <1>4, <1>5, <1>6, <1>7

\* Every step of a server's thread and of its caller that does not mislead it.
LEMMA ServerKeepsOwned ==
    ASSUME Inv, ~misled', NEW s \in Servers, ServerStep(s) \/ StopServer(s)
    PROVE  Owned'
<1> DEFINE x == fds[server_socket[s]]
<1>1. /\ SocketOK(s) /\ port_number[s] \in Nat
      /\ server_socket \in [Servers -> Fds \cup {-1}]
  BY DEF Inv, Basic, TypeOK, Owned, SocketsOK
<1>2. server_socket[s] # -1 /\ at[s] # "idle" => InUse(s)
  BY DEF InUse
<1>3. at[s] \in Attempt => InUse(s)
  BY <1>1 DEF SocketOK, InUse, Attempt
<1>4. CASE SocketFail(s)
  <2>1. server_socket[s] # -1 => InUse(s)
    BY <1>4 DEF SocketFail, InUse
  <2> QED
    BY <1>4, <2>1, FailKeepsOwned DEF SocketFail
<1>5. CASE StepFail(s)
  <2>1. at[s] # "idle"
    BY <1>5 DEF StepFail, CallFails
  <2> QED
    BY <1>2, <1>5, <2>1, FailKeepsOwned DEF StepFail
<1>6. CASE SocketOk(s)
  BY <1>6, SocketOkKeepsOwned
<1>7. CASE SetOptions(s)
  <2> DEFINE y == [x EXCEPT !.reuse = TRUE]
  <2>1. at[s] = "options" /\ OnSocket(s, "options", y, "timeout")
    BY <1>7 DEF SetOptions, OnSocket
  <2>2. x \in Sockets /\ x.owner = s /\ x.kind = server_type[s] /\ ~x.listening
    BY <1>1, <1>3, <2>1 DEF SocketOK, Attempt
  <2>3. /\ y \in Sockets /\ y.owner = s /\ y.kind = server_type[s] /\ y.reuse
        /\ ~y.listening
    BY <2>2 DEF Sockets
  <2> HIDE DEF y
  <2> QED
    BY <2>1, <2>3, OnSocketKeepsOwned DEF Attempt
<1>8. CASE SetTimeout(s)
  <2> DEFINE y == [x EXCEPT !.timeout = TRUE]
  <2>1. at[s] = "timeout" /\ OnSocket(s, "timeout", y, "bind")
    BY <1>8 DEF SetTimeout, OnSocket
  <2>2. /\ x \in Sockets /\ x.owner = s /\ x.kind = server_type[s]
        /\ x.reuse /\ ~x.listening
    BY <1>1, <1>3, <2>1 DEF SocketOK, Attempt
  <2>3. /\ y \in Sockets /\ y.owner = s /\ y.kind = server_type[s] /\ y.reuse
        /\ y.timeout /\ ~y.listening
    BY <2>2 DEF Sockets
  <2> HIDE DEF y
  <2> QED
    BY <2>1, <2>3, OnSocketKeepsOwned DEF Attempt
<1>9. CASE Bind(s)
  <2> DEFINE y == [x EXCEPT !.port = port_number[s]]
  <2>1. at[s] = "bind" /\ OnSocket(s, "bind", y, "listen")
    BY <1>9 DEF Bind
  <2>2. /\ x \in Sockets /\ x.owner = s /\ x.kind = server_type[s]
        /\ x.reuse /\ x.timeout /\ ~x.listening
    BY <1>1, <1>3, <2>1 DEF SocketOK, Attempt
  <2>3. /\ y \in Sockets /\ y.owner = s /\ y.kind = server_type[s] /\ y.reuse
        /\ y.timeout /\ y.port = port_number[s] /\ ~y.listening
    BY <1>1, <2>2 DEF Sockets
  <2> HIDE DEF y
  <2> QED
    BY <2>1, <2>3, OnSocketKeepsOwned DEF Attempt
<1>10. CASE Listen(s)
  <2> DEFINE y == [x EXCEPT !.listening = TRUE]
  <2>1. at[s] = "listen" /\ CanListen(s) /\ OnSocket(s, "listen", y, "true")
    BY <1>10 DEF Listen
  <2>2. /\ x \in Sockets /\ x.owner = s /\ x.kind = server_type[s]
        /\ x.reuse /\ x.timeout /\ x.port = port_number[s]
    BY <1>1, <1>3, <2>1 DEF SocketOK, Attempt
  <2>3. ~PortTaken(s)
    <3>1. port_number[s] # NULL
      BY <1>1, DescriptorAssumption
    <3> QED
      BY <2>1, <2>2, <3>1 DEF PortTaken, CanListen
  <2>4. /\ y \in Sockets /\ y.owner = s /\ y.kind = server_type[s] /\ y.reuse
        /\ y.timeout /\ y.port = port_number[s] /\ y.listening
    BY <2>2 DEF Sockets
  <2> HIDE DEF y
  <2> QED
    BY <2>1, <2>3, <2>4, OnSocketKeepsOwned DEF Attempt
<1>11. CASE HandleFalse(s)
  <2>1. CASE policy # "retry" /\ server_socket[s] # -1
    BY <1>2, <1>11, <2>1, CloseKeepsOwned DEF HandleFalse
  <2>2. CASE ~(policy # "retry" /\ server_socket[s] # -1)
    BY <1>11, <2>2, RetryKeepsOwned DEF HandleFalse
  <2> QED
    BY <2>1, <2>2
<1>12. CASE StopServer(s)
  <2>1. at[s] = "true" /\ server_socket[s] # -1
    BY <1>1, <1>12 DEF SocketOK, StopServer
  <2> QED
    BY <1>2, <1>12, <2>1, CloseKeepsOwned DEF StopServer
<1> QED
  BY <1>4, <1>5, <1>6, <1>7, <1>8, <1>9, <1>10, <1>11, <1>12 DEF ServerStep

\* A reader without a handle opens the file p.
LEMMA OpenKeepsOwned ==
    ASSUME Inv, NEW r \in Readers, NEW p \in Paths,
           handle[r] = NULL, FreeFds # {},
           Allot(File(r, p)),
           handle' = [handle EXCEPT ![r] = Min(FreeFds)],
           path' = [path EXCEPT ![r] = p],
           at' = [at EXCEPT ![r] = "idle"],
           UNCHANGED <<fieldVars, server_socket>>
    PROVE  Owned'
<1> DEFINE h == Min(FreeFds)
           obj == File(r, p)
<1> USE DEF Inv, Basic, Owned, fieldVars
<1>0. /\ fds' = [fds EXCEPT ![h] = obj]
      /\ handle' = [handle EXCEPT ![r] = h]
  BY DEF Allot
<1>1. /\ at \in [Servers \cup Readers -> Labels]
      /\ fds \in [Fds -> {FREE} \cup Sockets \cup Files]
      /\ server_socket \in [Servers -> Fds \cup {-1}]
      /\ handle \in [Readers -> Fds \cup {NULL}]
      /\ path \in [Readers -> Paths \cup {NULL}]
  BY DEF TypeOK, Labels, Attempt
<1>2. /\ at'[r] = "idle"
      /\ \A t \in Servers \cup Readers : t # r => at'[t] = at[t]
  BY <1>1
<1>3. \A s \in Servers : at'[s] = at[s]
  BY <1>2, Apart
<1>4. h \in Fds /\ fds[h] = FREE
  BY Allotted
<1>5. obj \in Files /\ obj.owner = r
  BY DEF File, Files
<1> HIDE DEF h, obj
<1>6. fds'[h] = obj /\ \A f \in Fds : f # h => fds'[f] = fds[f]
  BY <1>0, <1>1, <1>4
<1>7. /\ handle'[r] = h /\ path'[r] = p
      /\ \A q \in Readers : q # r => handle'[q] = handle[q] /\ path'[q] = path[q]
  BY <1>0, <1>1
<1>8. SocketsOK'
  <2> SUFFICES ASSUME NEW u \in Servers PROVE SocketOK(u)'
    BY DEF SocketsOK
  <2>1. SocketOK(u)
    BY DEF SocketsOK
  <2>2. at'[u] = at[u] /\ (InUse(u)' <=> InUse(u))
    BY <1>3 DEF InUse
  <2>3. InUse(u) => fds'[server_socket[u]] = fds[server_socket[u]]
    BY <1>1, <1>4, <1>6, <2>1, Apart DEF SocketOK, InUse
  <2>4. at[u] \in Attempt \cup {"true"} => InUse(u)
    BY <2>1 DEF SocketOK, InUse, Attempt
  <2> QED
    BY <2>1, <2>2, <2>3, <2>4 DEF SocketOK, Attempt
<1>9. PortsOK'
  <2> SUFFICES ASSUME NEW f \in Fds, NEW g \in Fds,
                      (Listens(f) /\ Listens(g) /\ fds[f].port = fds[g].port)'
               PROVE  f = g
    BY DEF PortsOK
  <2>1. f # h /\ g # h
    BY <1>5, <1>6, Apart DEF Listens
  <2> QED
    BY <1>6, <2>1 DEF PortsOK, Listens
<1>10. HandlesOK'
  <2> SUFFICES ASSUME NEW q \in Readers PROVE HandleOK(q)'
    BY DEF HandlesOK
  <2>1. HandleOK(q)
    BY DEF HandlesOK
  <2>2. CASE q = r
    BY <1>2, <1>6, <1>7, <2>2, Apart DEF HandleOK, File, obj
  <2>3. CASE q # r
    <3>1. path[q] # NULL => File(q, path[q]) \in Files
      BY DEF TypeOK, File, Files
    <3>2. handle[q] # NULL => handle[q] # h
      BY <1>4, <2>1, <3>1, Apart DEF HandleOK
    <3>3. handle[q] # NULL => fds'[handle[q]] = fds[handle[q]]
      BY <1>1, <1>6, <3>2
    <3>4. at'[q] = at[q] /\ handle'[q] = handle[q] /\ path'[q] = path[q]
      BY <1>2, <1>7, <2>3
    <3> QED
      BY <2>1, <3>3, <3>4 DEF HandleOK, File
  <2> QED
    BY <2>2, <2>3
<1>11. FilesHeld'
  <2> SUFFICES ASSUME NEW f \in Fds, fds'[f] \in Files
               PROVE  handle'[fds'[f].owner] = f
    BY DEF FilesHeld
  <2>1. CASE f = h
    BY <1>5, <1>6, <1>7, <2>1
  <2>2. CASE f # h
    <3>1. fds'[f] = fds[f] /\ handle[fds[f].owner] = f
      BY <1>6, <2>2 DEF FilesHeld
    <3>2. fds[f].owner \in Readers /\ fds[f].owner # r
      BY <3>1, Apart DEF Files
    <3> QED
      BY <1>7, <3>1, <3>2
  <2> QED
    BY <2>1, <2>2
<1>12. TidyOK'
  <2> SUFFICES ASSUME policy # "retry", NEW f \in Fds, fds'[f] \in Sockets
               PROVE  /\ server_socket[fds'[f].owner] = f
                      /\ at'[fds'[f].owner] # "idle"
    BY DEF TidyOK, SocketsHeld
  <2>1. f # h /\ fds'[f] = fds[f]
    BY <1>5, <1>6, Apart
  <2>2. fds[f].owner \in Servers
    BY <2>1 DEF Sockets
  <2> QED
    BY <1>3, <2>1, <2>2 DEF TidyOK, SocketsHeld
<1> QED
  BY <1>8, <1>9, <1>10, <1>11, <1>12

\* fclose frees the place of the reader's own file.
LEMMA FcloseKeepsOwned ==
    ASSUME Inv, NEW r \in Readers, Fclose(r)
    PROVE  Owned'
<1> DEFINE h == handle[r]
<1> USE DEF Inv, Basic, Owned, fieldVars
<1>0. /\ fds' = [fds EXCEPT ![h] = FREE]
      /\ handle' = [handle EXCEPT ![r] = NULL]
      /\ path' = [path EXCEPT ![r] = NULL]
      /\ at[r] = "idle" /\ h # NULL
      /\ UNCHANGED <<fieldVars, server_socket, at>>
  BY DEF Fclose, Closed
<1>1. /\ fds \in [Fds -> {FREE} \cup Sockets \cup Files]
      /\ server_socket \in [Servers -> Fds \cup {-1}]
      /\ handle \in [Readers -> Fds \cup {NULL}]
      /\ path \in [Readers -> Paths \cup {NULL}]
  BY DEF TypeOK
<1>2. h \in Fds /\ fds[h] \in Files /\ fds[h].owner = r
  <2>1. HandleOK(r)
    BY DEF HandlesOK
  <2>2. path[r] \in Paths
    BY <1>0, <1>1, <2>1 DEF HandleOK
  <2> QED
    BY <1>0, <1>1, <2>1, <2>2 DEF HandleOK, File, Files
<1>3. fds'[h] = FREE /\ \A f \in Fds : f # h => fds'[f] = fds[f]
  BY <1>0, <1>1, <1>2
<1>4. /\ handle'[r] = NULL /\ path'[r] = NULL
      /\ \A q \in Readers : q # r => handle'[q] = handle[q] /\ path'[q] = path[q]
  BY <1>0, <1>1
<1>5. SocketsOK'
  <2> SUFFICES ASSUME NEW u \in Servers PROVE SocketOK(u)'
    BY DEF SocketsOK
  <2>1. SocketOK(u)
    BY DEF SocketsOK
  <2>2. InUse(u)' <=> InUse(u)
    BY <1>0 DEF InUse
  <2>3. InUse(u) => fds'[server_socket[u]] = fds[server_socket[u]]
    BY <1>1, <1>2, <1>3, <2>1, Apart DEF SocketOK, InUse
  <2>4. at[u] \in Attempt \cup {"true"} => InUse(u)
    BY <2>1 DEF SocketOK, InUse, Attempt
  <2> QED
    BY <1>0, <2>1, <2>2, <2>3, <2>4 DEF SocketOK, Attempt
<1>6. PortsOK'
  <2> SUFFICES ASSUME NEW f \in Fds, NEW g \in Fds,
                      (Listens(f) /\ Listens(g) /\ fds[f].port = fds[g].port)'
               PROVE  f = g
    BY DEF PortsOK
  <2>1. f # h /\ g # h
    BY <1>3, Apart DEF Listens
  <2> QED
    BY <1>3, <2>1 DEF PortsOK, Listens
<1>7. HandlesOK'
  <2> SUFFICES ASSUME NEW q \in Readers PROVE HandleOK(q)'
    BY DEF HandlesOK
  <2>1. HandleOK(q)
    BY DEF HandlesOK
  <2>2. CASE q = r
    BY <1>0, <1>4, <2>2 DEF HandleOK
  <2>3. CASE q # r
    <3>1. handle[q] # NULL => fds[handle[q]].owner = q
      BY <2>1 DEF HandleOK, File
    <3>2. handle[q] # NULL => fds'[handle[q]] = fds[handle[q]]
      BY <1>1, <1>2, <1>3, <2>3, <3>1
    <3> QED
      BY <1>0, <1>4, <2>1, <2>3, <3>2 DEF HandleOK, File
  <2> QED
    BY <2>2, <2>3
<1>8. FilesHeld'
  <2> SUFFICES ASSUME NEW f \in Fds, fds'[f] \in Files
               PROVE  handle'[fds'[f].owner] = f
    BY DEF FilesHeld
  <2>1. f # h /\ fds'[f] = fds[f] /\ handle[fds[f].owner] = f
    BY <1>3, Apart DEF FilesHeld
  <2>2. fds[f].owner \in Readers /\ fds[f].owner # r
    BY <2>1 DEF Files
  <2> QED
    BY <1>4, <2>1, <2>2
<1>9. TidyOK'
  BY <1>0, <1>3, Apart DEF TidyOK, SocketsHeld
<1> QED
  BY <1>5, <1>6, <1>7, <1>8, <1>9

\* A reader goes on within validate_and_open_file.
LEMMA ValidateKeepsOwned ==
    ASSUME Inv, NEW r \in Readers,
           LstatFail(r) \/ Lstat(r) \/ \E p \in Paths : Resolve(r, p)
    PROVE  Owned'
<1> USE DEF Inv, Basic, Owned, fieldVars, fileVars, Goto
<1>0. UNCHANGED <<fieldVars, server_socket, fds, handle>>
  BY DEF LstatFail, Lstat, Resolve
<1>1. /\ at \in [Servers \cup Readers -> Labels]
      /\ path \in [Readers -> Paths \cup {NULL}]
  BY DEF TypeOK, Labels, Attempt
<1>2. HandleOK(r)
  BY DEF HandlesOK
<1>3. /\ \A t \in Servers \cup Readers : t # r => at'[t] = at[t]
      /\ \A q \in Readers : q # r => path'[q] = path[q]
      /\ handle[r] = NULL
  BY <1>1, <1>2 DEF LstatFail, Lstat, Resolve, HandleOK
<1>4. \A s \in Servers : at'[s] = at[s]
  BY <1>3, Apart
<1>5. SocketsOK'
  BY <1>0, <1>4 DEF SocketsOK, SocketOK, InUse
<1>6. PortsOK' /\ FilesHeld'
  BY <1>0 DEF PortsOK, FilesHeld, Listens
<1>7. HandlesOK'
  <2> SUFFICES ASSUME NEW q \in Readers PROVE HandleOK(q)'
    BY DEF HandlesOK
  <2>1. CASE q = r
    BY <1>0, <1>3, <2>1 DEF HandleOK
  <2>2. CASE q # r
    BY <1>0, <1>3, <2>2 DEF HandlesOK, HandleOK, File
  <2> QED
    BY <2>1, <2>2
<1>8. TidyOK'
  <2>1. \A x \in Sockets : x.owner \in Servers
    BY DEF Sockets
  <2> QED
    BY <1>0, <1>4, <2>1 DEF TidyOK, SocketsHeld
<1> QED
  BY <1>5, <1>6, <1>7, <1>8

\* A step that leaves the threads, the table and the numbers in it alone.
LEMMA SameKeepsOwned ==
    ASSUME Inv,
           UNCHANGED <<fieldVars, server_socket, fds, at, handle, path>>
    PROVE  Owned'
<1> USE DEF Inv, Basic, Owned, fieldVars
<1>1. SocketsOK' /\ PortsOK'
  BY DEF SocketsOK, SocketOK, InUse, PortsOK, Listens
<1>2. HandlesOK' /\ FilesHeld' /\ TidyOK'
  BY DEF HandlesOK, HandleOK, FilesHeld, File, TidyOK, SocketsHeld
<1> QED
  BY <1>1, <1>2

\* Every step of a reader.
LEMMA ReaderKeepsOwned ==
    ASSUME Inv, NEW r \in Readers, ReaderStep(r)
    PROVE  Owned'
<1> USE DEF fieldVars, fileVars
<1>1. /\ at \in [Servers \cup Readers -> Labels]
      /\ path \in [Readers -> Paths \cup {NULL}]
      /\ at[r] # "idle" => path[r] # NULL
  BY DEF Inv, Basic, TypeOK, LabelsOK, Labels, Attempt
<1>2. HandleOK(r)
  BY DEF Inv, Owned, HandlesOK
<1>3. CASE OpenNothing(r)
  BY <1>3, SameKeepsOwned DEF OpenNothing, vars
<1>4. CASE \E p \in Paths, m \in Modes : OpenFile(r, p, m)
  <2>1. PICK p \in Paths, m \in Modes : OpenFile(r, p, m)
    BY <1>4
  <2>2. at' = [at EXCEPT ![r] = "idle"]
    BY <1>1, <2>1 DEF OpenFile
  <2>3. FreeFds # {} /\ handle[r] = NULL
    BY <2>1 DEF OpenFile, Opens
  <2> QED
    BY <2>1, <2>2, <2>3, OpenKeepsOwned DEF OpenFile
<1>5. CASE LstatFail(r) \/ Lstat(r) \/ \E p \in Paths : Resolve(r, p)
  BY <1>5, ValidateKeepsOwned
<1>6. CASE Fclose(r)
  BY <1>6, FcloseKeepsOwned
<1>7. CASE \E m \in Modes : FopenOk(r, m)
  <2>1. PICK m \in Modes : FopenOk(r, m)
    BY <1>7
  <2>2. PICK p \in Paths : p = path[r]
    BY <1>1, <2>1 DEF FopenOk
  <2>3. path' = [path EXCEPT ![r] = p] /\ at' = [at EXCEPT ![r] = "idle"]
    BY <1>1, <2>1, <2>2 DEF FopenOk, Goto
  <2>4. FreeFds # {} /\ handle[r] = NULL
    BY <1>2, <2>1 DEF FopenOk, Opens, HandleOK
  <2>5. Allot(File(r, p))
    BY <2>1, <2>2 DEF FopenOk
  <2> QED
    BY <2>1, <2>3, <2>4, <2>5, OpenKeepsOwned DEF FopenOk
<1>8. CASE \E m \in Modes : FopenCrash(r, m)
  BY <1>8, SameKeepsOwned DEF FopenCrash
<1> QED
  BY <1>3, <1>4, <1>5, <1>6, <1>7, <1>8 DEF ReaderStep

\* Every step keeps ownership, unless it misleads a caller.
LEMMA NextKeepsOwned == Inv /\ ~misled' /\ [Next]_vars => Owned'
<1> SUFFICES ASSUME Inv, ~misled', [Next]_vars PROVE Owned'
  OBVIOUS
<1>1. CASE UNCHANGED vars
  BY <1>1, SameKeepsOwned DEF vars, fileVars
<1>2. CASE \E s \in Servers : ServerStep(s) \/ StopServer(s)
  BY <1>2, ServerKeepsOwned
<1>3. CASE \E r \in Readers : ReaderStep(r)
  BY <1>3, ReaderKeepsOwned
<1>4. CASE \E p \in Paths, k \in Kinds : FileChanges(p, k)
  BY <1>4, SameKeepsOwned DEF FileChanges
<1> QED
  BY <1>1, <1>2, <1>3, <1>4 DEF Next

\* Who was misled once stays so: misled is a history variable.
LEMMA MisledStays == misled /\ [Next]_vars => misled'
<1> SUFFICES ASSUME misled, [Next]_vars PROVE misled'
  OBVIOUS
<1>1. CASE UNCHANGED vars
  BY <1>1 DEF vars
<1>2. ASSUME NEW s \in Servers, ServerStep(s) \/ StopServer(s) PROVE misled'
  BY <1>2 DEF ServerStep, SocketFail, SocketOk, OnSocket, SetOptions,
     SetTimeout, Bind, Listen, StepFail, HandleFalse, StopServer
<1>3. ASSUME NEW r \in Readers, ReaderStep(r) PROVE misled'
  BY <1>3 DEF ReaderStep, OpenNothing, vars, OpenFile, Resolve, LstatFail,
     Lstat, FopenOk, FopenCrash, Fclose
<1>4. CASE \E p \in Paths, k \in Kinds : FileChanges(p, k)
  BY <1>4 DEF FileChanges
<1> QED
  BY <1>1, <1>2, <1>3, <1>4 DEF Next

\* The invariant holds in every behaviour.
LEMMA Invariance == Spec => []IndInv
<1>1. Init => IndInv
  BY InitBasic, InitOwned DEF IndInv
<1>2. IndInv /\ [Next]_vars => IndInv'
  <2> SUFFICES ASSUME IndInv, [Next]_vars PROVE IndInv'
    OBVIOUS
  <2>1. Basic'
    BY NextBasic DEF IndInv
  <2>2. ~misled' => Owned'
    BY MisledStays, NextKeepsOwned DEF IndInv, Inv
  <2> QED
    BY <2>1, <2>2 DEF IndInv
<1> QED
  BY <1>1, <1>2, PTL DEF Spec

-----------------------------------------------------------------------------
(* The theorems *)

\* Every variable keeps its type: server_socket is -1 or a descriptor, and a
\* place of the table is free, a socket, or a file, through every failure of
\* establish_server and of the readers' calls, and with all three callers,
\* also with one that closes what is not its own.
THEOREM TypeCorrect == Spec => []TypeOK
<1>1. IndInv => TypeOK
  BY DEF IndInv, Basic
<1> QED
  BY <1>1, Invariance, PTL

\* When establish_server has returned true, server_socket is the server's own
\* socket, with its options set and listening on port_number, and no other
\* socket listens there: for any number of servers, in any interleaving, and
\* whatever sockets failed attempts left open, until a caller was misled.
THEOREM TrueMeansListening == Spec => []EstablishedListens
<1>1. IndInv => EstablishedListens
  <2> SUFFICES ASSUME IndInv, ~misled, NEW s \in Servers, at[s] = "true"
               PROVE  LET f == server_socket[s] IN
                        /\ f # -1 /\ IsSocket(f) /\ fds[f].owner = s
                        /\ fds[f].listening /\ fds[f].port = port_number[s]
                        /\ fds[f].reuse /\ fds[f].timeout
                        /\ ~PortTaken(s)
    BY DEF EstablishedListens
  <2> USE DEF IndInv, Basic, Owned
  <2> DEFINE f == server_socket[s]
  <2>1. /\ f \in Fds /\ fds[f] \in Sockets /\ fds[f].owner = s
        /\ fds[f].listening /\ fds[f].port = port_number[s]
        /\ fds[f].reuse /\ fds[f].timeout
    BY DEF TypeOK, SocketsOK, SocketOK, InUse
  <2>2. f # -1 /\ IsSocket(f)
    BY <2>1, SocketIs, Apart
  <2>3. ~PortTaken(s)
    BY <2>1, SocketIs DEF PortTaken, PortsOK, Listens
  <2> QED
    BY <2>1, <2>2, <2>3
<1> QED
  BY <1>1, Invariance, PTL

\* With callers that close server_socket when they are told false, and that
\* were not misled, no socket is lost, and a descriptor is free for every
\* server that starts an attempt and for every reader without a handle: as
\* many descriptors as threads are enough, for any number of them.
THEOREM TidyLosesNothing == Spec => []TidyKeepsDescriptors
<1>1. IndInv => TidyKeepsDescriptors
  <2> SUFFICES ASSUME IndInv, policy # "retry", ~misled
               PROVE  /\ \A f \in Fds : IsSocket(f) => server_socket[fds[f].owner] = f
                      /\ \A s \in Servers : at[s] = "idle" => FreeFds # {}
                      /\ \A r \in Readers : handle[r] = NULL => FreeFds # {}
    BY DEF TidyKeepsDescriptors
  <2> USE DEF IndInv, Basic, Owned
  <2>1. SocketsHeld
    BY DEF TidyOK
  <2>2. \A f \in Fds : IsSocket(f) => server_socket[fds[f].owner] = f
    BY <2>1, SocketIs DEF SocketsHeld
  <2>3. \A f \in Fds : fds[f] # FREE => fds[f] \in Sockets \cup Files
    BY DEF TypeOK
  <2>4. /\ \A x \in Sockets : x.owner \in Servers
        /\ \A x \in Files : x.owner \in Readers
    BY DEF Sockets, Files
  <2>5. ASSUME NEW s \in Servers, at[s] = "idle" PROVE FreeFds # {}
    <3>1. \A f \in Fds : fds[f] # FREE => fds[f].owner # s
      BY <2>1, <2>3, <2>4, <2>5, Apart DEF SocketsHeld
    <3> QED
      BY <2>1, <3>1, SpareFd
  <2>6. ASSUME NEW r \in Readers, handle[r] = NULL PROVE FreeFds # {}
    <3>1. \A f \in Fds : fds[f] # FREE => fds[f].owner # r
      BY <2>3, <2>4, <2>6, Apart DEF FilesHeld
    <3> QED
      BY <2>1, <3>1, SpareFd
  <2> QED
    BY <2>2, <2>5, <2>6
<1> QED
  BY <1>1, Invariance, PTL

\* With callers that only try again, or close server_socket and set it to -1,
\* and with those that close it and leave it until one is misled, no step
\* closes a descriptor under a FILE: a handle keeps the file that it was opened
\* for, and get_file_size_bytes answers for that file.
THEOREM HandlesStay == Spec => []HandleKeepsFile
<1>1. IndInv => HandleKeepsFile
  <2> SUFFICES ASSUME IndInv, ~misled, NEW r \in Readers, handle[r] # NULL
               PROVE  /\ fds[handle[r]] = File(r, path[r])
                      /\ get_file_size_bytes(handle[r]) = path[r]
    BY DEF HandleKeepsFile
  <2>1. fds[handle[r]] = File(r, path[r]) /\ path[r] # NULL
    BY DEF IndInv, Owned, HandlesOK, HandleOK
  <2>2. File(r, path[r]) \in Files /\ File(r, path[r]).kind = path[r]
    BY <2>1 DEF IndInv, Basic, TypeOK, File, Files
  <2> QED
    BY <2>1, <2>2, Apart DEF get_file_size_bytes
<1> QED
  BY <1>1, Invariance, PTL

=============================================================================
