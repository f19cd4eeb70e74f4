----------------------------- MODULE DaemonProofs -----------------------------
(***************************************************************************)
(* Proofs about module Daemon, for any modules, zygotes, apps and bounds.  *)
(*                                                                         *)
(* That an index names the module its sender means is a fact about three   *)
(* lists: the daemon's, the one a zygote is loading and the zygote's table *)
(* (InStep).  It is kept although a zygote may be killed with a removal    *)
(* under way that is served when the next zygote runs already, because the *)
(* daemon serves connections in their order: the next zygote's ReadModules *)
(* comes after that removal, and nothing that could notice the removal     *)
(* exists before (InOrder).                                                *)
(***************************************************************************)
EXTENDS Daemon, SequenceTheorems, TLAPS

(* A connection the daemon of this moment holds.                           *)
Pending(c) == conn[c] \in {"queued", "open"}

(* The daemon that runs is the one a zygote read its list from.            *)
SameDaemon(z) == up /\ readFrom[z] = started

(* A request for the removal of a module that the daemon has yet to serve. *)
Removing(z) == Pending(z) /\ req[z].act = "RemoveModule"

(* Connections, the queue, and the one that is served.                     *)
Queue ==
    /\ \A c \in Clients : conn[c] = "queued" <=> \E i \in 1 .. Len(backlog) : backlog[i] = c
    /\ \A i, j \in 1 .. Len(backlog) : backlog[i] = backlog[j] => i = j
    /\ \A c \in Clients : conn[c] = "open" <=> serving = c
    /\ ~up => backlog = <<>> /\ serving = Nobody

(* What the clients ask, and when.                                         *)
Requests ==
    /\ \A c \in Clients :
          /\ Idle(c) => req[c] = NoRequest /\ wrote[c] = 0
          /\ wrote[c] = 2 => req[c].act \in WithArguments
    /\ \A c \in Zygotes \cup Apps : pcs[c] = "unborn" => Idle(c)
    /\ \A c \in Apps \cup {Tracer} : req[c].act \notin {"ReadModules", "RemoveModule"}
    /\ \A z \in Zygotes : ~Idle(z) =>
          \/ pcs[z] = "read" /\ req[z].act = "ReadModules" /\ conn[z] # "handed"
          \/ pcs[z] = "remove" /\ req[z].act = "RemoveModule" /\ conn[z] # "handed"
          \/ pcs[z] = "bare" /\ req[z].act = "ReadModules" /\ Pending(z)
          \/ pcs[z] = "dead" /\ Pending(z) /\ req[z].act \in {"ReadModules", "RemoveModule"}

(* Zygotes run one after another; their children come after their loading. *)
Lineage ==
    /\ \A z \in Zygotes : z # current => pcs[z] \in {"unborn", "dead"}
    /\ IF current \in Zygotes
       THEN pcs[current] # "unborn"
       ELSE \A z \in Zygotes : pcs[z] = "unborn"
    /\ \A a \in Apps : pcs[a] # "unborn" => parent[a] \in Zygotes
    /\ \A a \in Apps : parent[a] \in Zygotes =>
          /\ pcs[parent[a]] \in {"ready", "bare", "dead"}
          /\ Idle(parent[a]) \/ (Pending(parent[a]) /\ req[parent[a]].act = "ReadModules")

(* load_modules_only's variables.                                          *)
LoopVars(z) ==
    /\ pcs[z] \notin {"load", "remove", "ready"} => table[z] = <<>>
    /\ pcs[z] \notin {"load", "remove"} => removed[z] = 0 /\ position[z] = 1
    /\ removed[z] < position[z]
    /\ pcs[z] = "remove" => position[z] <= Len(found[z])
    /\ pcs[z] = "load" => position[z] <= Len(found[z]) + 1
    /\ readFrom[z] <= started
Loading ==
    /\ \A z \in Zygotes : LoopVars(z)
    /\ \A z \in Zygotes : pcs[z] = "read" /\ Answered(z) => answer[z].from <= started
    /\ \A a \in Apps : pcs[a] = "unborn" => table[a] = <<>>

(* A request of a zygote that is gone is served before the next zygote's,  *)
(* of which nothing can be told from what was there before that.           *)
Behind(z) ==
    /\ conn[current] \notin {"open", "answered"}
    /\ \A i \in 1 .. Len(backlog) : backlog[i] = current =>
          serving = z \/ \E j \in 1 .. i - 1 : backlog[j] = z
Fresh ==
    /\ pcs[current] \in {"restart", "read", "bare", "dead"}
    /\ Pending(current) => req[current].act = "ReadModules"
    /\ \A a \in Apps : parent[a] = current => table[a] = <<>> /\ req[a].act \notin ByIndex
InOrder == \A z \in Zygotes : Pending(z) /\ z # current => Behind(z) /\ Fresh

(* So at most one removal is under way.                                    *)
OneRemoval == \A y, z \in Zygotes : Removing(y) /\ Removing(z) => y = z

(* s and t are the same sequence.                                          *)
Same(s, t) == Len(s) = Len(t) /\ \A k \in 1 .. Len(s) : s[k] = t[k]

(* s is t, followed by u from its i-th element on.                         *)
Joins(s, t, u, i) ==
    /\ Len(s) = Len(t) + (Len(u) + 1 - i)
    /\ \A k \in 1 .. Len(t) : s[k] = t[k]
    /\ \A k \in i .. Len(u) : s[Len(t) + (k + 1 - i)] = u[k]

(* The daemon's list is what the zygote has loaded of it and what it has   *)
(* still to load, without what it has removed; then it is the table of the *)
(* zygote and of its children.                                             *)
HasRead(z) ==
    pcs[z] = "read" /\ Answered(z) /\ up /\ answer[z].from = started => answer[z].modules = list
HasLoaded(z) ==
    SameDaemon(z) /\ pcs[z] \in {"load", "remove"} =>
        /\ Len(table[z]) + removed[z] = position[z] - 1
        /\ pcs[z] = "load" \/ Pending(z) => Joins(list, table[z], found[z], position[z])
HasRemoved(z) ==
    SameDaemon(z) /\ pcs[z] = "remove" =>
        /\ conn[z] \in {"queued", "open", "answered"}
        /\ req[z].index = Len(table[z])
        /\ req[z].of = found[z][position[z]]
        /\ Answered(z) => /\ answer[z].said = "yes"
                          /\ Joins(list, table[z], found[z], position[z] + 1)
IsReady(z) == SameDaemon(z) /\ pcs[z] = "ready" => Same(list, table[z])
HasForked(z) ==
    \A a \in Apps :
        parent[a] = z /\ table[a] # <<>> /\ SameDaemon(z) => Same(list, table[a])

InStep ==
    current \in Zygotes =>
        /\ HasRead(current) /\ HasLoaded(current) /\ HasRemoved(current)
        /\ IsReady(current) /\ HasForked(current)

(* Every request names by its index the module it means.                   *)
Named ==
    /\ \A z \in Zygotes : Removing(z) /\ SameDaemon(z) => SameModule(z, req[z].of)
    /\ \A a \in Apps :
          ( /\ Pending(a) /\ req[a].act \in ByIndex
            /\ parent[a] = current /\ current \in Zygotes /\ SameDaemon(current))
             => SameModule(a, req[a].of)

IInv ==
    /\ TypeOK
    /\ Queue /\ Requests /\ Lineage /\ Loading
    /\ InOrder /\ OneRemoval /\ InStep /\ Named

-----------------------------------------------------------------------------
USE DEF Idle, Dead, Gone, Answered, Failed, Waiting, Pending

(* What Vec::remove leaves.                                                *)
LEMMA WithoutFact ==
    ASSUME NEW S, NEW s \in Seq(S), NEW i \in 1 .. Len(s)
    PROVE  /\ Without(s, i) \in Seq(S)
           /\ Len(Without(s, i)) = Len(s) - 1
           /\ \A k \in 1 .. i - 1 : Without(s, i)[k] = s[k]
           /\ \A k \in i .. Len(s) - 1 : Without(s, i)[k] = s[k + 1]
  <1> DEFINE a == SubSeq(s, 1, i - 1)
             b == SubSeq(s, i + 1, Len(s))
  <1>1. \A k \in 1 .. Len(s) : s[k] \in S
    OBVIOUS
  <1>2. /\ a \in Seq(S) /\ Len(a) = i - 1
        /\ \A k \in 1 .. i - 1 : a[k] = s[k]
    <2>1. 1 \in Int /\ i - 1 \in Int /\ \A k \in 1 .. i - 1 : s[k] \in S
      BY <1>1
    <2> HIDE DEF a
    <2>2. /\ a \in Seq(S) /\ Len(a) = IF 1 <= i - 1 THEN (i - 1) - 1 + 1 ELSE 0
          /\ \A k \in 1 .. (i - 1) - 1 + 1 : a[k] = s[1 + k - 1]
      BY <2>1, SubSeqProperties DEF a
    <2> QED BY <2>2
  <1>3. /\ b \in Seq(S) /\ Len(b) = Len(s) - i
        /\ \A k \in 1 .. Len(s) - i : b[k] = s[k + i]
    <2>1. i + 1 \in Int /\ Len(s) \in Int /\ \A k \in i + 1 .. Len(s) : s[k] \in S
      BY <1>1
    <2> HIDE DEF b
    <2>2. /\ b \in Seq(S) /\ Len(b) = IF i + 1 <= Len(s) THEN Len(s) - (i + 1) + 1 ELSE 0
          /\ \A k \in 1 .. Len(s) - (i + 1) + 1 : b[k] = s[(i + 1) + k - 1]
      BY <2>1, SubSeqProperties DEF b
    <2> QED BY <2>2
  <1>4. Without(s, i) = a \o b
    BY DEF Without
  <1> HIDE DEF a, b
  <1>5. /\ a \o b \in Seq(S) /\ Len(a \o b) = Len(a) + Len(b)
        /\ \A k \in 1 .. Len(a) + Len(b) :
              (a \o b)[k] = IF k <= Len(a) THEN a[k] ELSE b[k - Len(a)]
    BY <1>2, <1>3, ConcatProperties
  <1>6. \A k \in i .. Len(s) - 1 : (a \o b)[k] = s[k + 1]
    BY <1>2, <1>3, <1>5
  <1> QED BY <1>2, <1>3, <1>4, <1>5, <1>6

-----------------------------------------------------------------------------
(* The pieces of a request: what becomes of the connections' variables.    *)
ConnTyped ==
    /\ serving \in Clients \cup {Nobody}
    /\ backlog \in Seq(Clients)
    /\ conn \in [Clients -> {"none", "queued", "open", "handed", "answered", "refused", "reset"}]
    /\ req \in [Clients -> [act : Actions \cup {"none"}, index : Nat,
                      of : Modules \cup {Nobody}]]
    /\ wrote \in [Clients -> 0 .. 2]
    /\ answer \in [Clients -> [said : Answers, modules : Seq(Modules), from : Nat]]

LEMMA SaysTyped ==
    ASSUME NEW w \in Answers
    PROVE  Says(w) \in [said : Answers, modules : Seq(Modules), from : Nat]
  BY DEF Says

LEMMA TypedConn == TypeOK => ConnTyped
  BY DEF TypeOK, ConnTyped

(* What connect() finds.                                                   *)
LEMMA ConnectCases ==
    ASSUME NEW c, NEW act, NEW i, NEW m, Connect(c, act, i, m)
    PROVE  /\ conn[c] = "none" /\ pcs[c] # "dead"
           /\ \/ up /\ conn' = [conn EXCEPT ![c] = "queued"] /\ backlog' = Append(backlog, c)
              \/ ~up /\ conn' = [conn EXCEPT ![c] = "refused"] /\ backlog' = backlog
           /\ req' = [req EXCEPT ![c] = [act |-> act, index |-> i, of |-> m]]
           /\ serving' = serving /\ wrote' = wrote /\ answer' = answer
  <1>1. \/ up /\ conn' = [conn EXCEPT ![c] = "queued"] /\ backlog' = Append(backlog, c)
        \/ ~up /\ conn' = [conn EXCEPT ![c] = "refused"] /\ backlog' = backlog
    BY Zenon DEF Connect
  <1> QED BY <1>1 DEF Connect

LEMMA ConnectTyped ==
    ASSUME ConnTyped, NEW c \in Clients, NEW act \in Actions, NEW i \in Nat,
           NEW m \in Modules \cup {Nobody}, Connect(c, act, i, m)
    PROVE  ConnTyped'
  <1>1. PICK how \in {"queued", "refused"} : conn' = [conn EXCEPT ![c] = how]
    BY ConnectCases
  <1>2. backlog' = Append(backlog, c) \/ backlog' = backlog
    BY ConnectCases
  <1>3. backlog' \in Seq(Clients)
    <2>1. backlog \in Seq(Clients)
      BY DEF ConnTyped
    <2> QED BY ONLY <1>2, <2>1, c \in Clients, AppendProperties
  <1>4. /\ serving' = serving /\ wrote' = wrote /\ answer' = answer
        /\ req' = [req EXCEPT ![c] = [act |-> act, index |-> i, of |-> m]]
    BY ConnectCases
  <1> QED BY <1>1, <1>3, <1>4 DEF ConnTyped

LEMMA CloseTyped ==
    ASSUME ConnTyped, NEW c \in Clients, NEW n \in Clients \cup {Nobody}, Close(c, n)
    PROVE  ConnTyped'
  <1>1. Says("nothing") \in [said : Answers, modules : Seq(Modules), from : Nat]
    BY SaysTyped DEF Answers
  <1>2. NoRequest \in [act : Actions \cup {"none"}, index : Nat, of : Modules \cup {Nobody}]
    BY DEF NoRequest
  <1> QED BY SMTT(30), <1>1, <1>2 DEF Close, ConnTyped

LEMMA EndsTyped ==
    ASSUME ConnTyped, NEW c \in Clients, NEW how \in {"answered", "reset"},
           NEW n \in Clients \cup {Nobody}, Ends(c, how, n),
           \/ UNCHANGED answer
           \/ \E a \in [said : Answers, modules : Seq(Modules), from : Nat] :
                 answer' = [answer EXCEPT ![c] = a]
    PROVE  ConnTyped'
  <1>1. conn' \in [Clients -> {"none", "queued", "open", "handed", "answered", "refused", "reset"}]
    BY DEF Ends, ConnTyped
  <1>2. answer' \in [Clients -> [said : Answers, modules : Seq(Modules), from : Nat]]
    BY DEF ConnTyped
  <1>3. /\ serving' \in Clients \cup {Nobody}
        /\ UNCHANGED <<backlog, req, wrote>>
    BY DEF Ends
  <1> QED BY <1>1, <1>2, <1>3 DEF ConnTyped

LEMMA ReplyTyped ==
    ASSUME ConnTyped, NEW c \in Clients,
           NEW a \in [said : Answers, modules : Seq(Modules), from : Nat],
           Reply(c, a)
    PROVE  ConnTyped'
  BY CloseTyped, EndsTyped DEF Reply

LEMMA HangUpTyped ==
    ASSUME ConnTyped, NEW c \in Clients, HangUp(c)
    PROVE  ConnTyped'
  BY CloseTyped, EndsTyped DEF HangUp

DaemonTyped ==
    /\ up \in BOOLEAN /\ first \in BOOLEAN /\ clean \in BOOLEAN
    /\ started \in 0 .. MaxRespawns
    /\ list \in Seq(Modules)
    /\ companion \in [Modules -> {"none", "noEntry", "live"}]

LoadTyped ==
    /\ found \in [Zygotes -> Seq(Modules)]
    /\ readFrom \in [Zygotes -> Nat]
    /\ table \in [Zygotes \cup Apps -> Seq(Modules)]
    /\ removed \in [Zygotes -> Nat] /\ position \in [Zygotes -> Nat \ {0}]
    /\ refused \in [Zygotes -> 0 .. MaxAttempts]

ProgTyped ==
    /\ pcs \in [Clients -> ZygotePcs \cup AppPcs]
    /\ current \in Zygotes \cup {Nobody}
    /\ parent \in [Apps -> Zygotes \cup {Nobody}]
    /\ kills \in Nat

LEMMA TypeParts == TypeOK <=> DaemonTyped /\ ConnTyped /\ LoadTyped /\ ProgTyped
  BY DEF TypeOK, DaemonTyped, ConnTyped, LoadTyped, ProgTyped

LEMMA TypePartsNext ==
    DaemonTyped' /\ ConnTyped' /\ LoadTyped' /\ ProgTyped' => TypeOK'
  BY DEF TypeOK, DaemonTyped, ConnTyped, LoadTyped, ProgTyped

(* Parts a step leaves alone.                                              *)
LEMMA SameDaemonTyped == DaemonTyped /\ UNCHANGED daemonVars => DaemonTyped'
  BY DEF DaemonTyped, daemonVars

LEMMA SameConnTyped == ConnTyped /\ UNCHANGED connVars => ConnTyped'
  BY DEF ConnTyped, connVars

LEMMA SameLoadTyped == LoadTyped /\ UNCHANGED loadVars => LoadTyped'
  BY DEF LoadTyped, loadVars

LEMMA SameProgTyped == ProgTyped /\ UNCHANGED progVars => ProgTyped'
  BY DEF ProgTyped, progVars

LEMMA GoesTyped ==
    ASSUME ProgTyped, NEW c \in Clients, NEW pc \in ZygotePcs \cup AppPcs, Goes(c, pc),
           UNCHANGED <<current, parent, kills>>
    PROVE  ProgTyped'
  BY DEF ProgTyped, Goes

LEMMA InitTyped == Init => TypeOK
  <1> SUFFICES ASSUME Init PROVE TypeOK
    OBVIOUS
  <1>1. DaemonTyped
    <2>1. up \in BOOLEAN /\ first \in BOOLEAN /\ clean \in BOOLEAN
      BY DEF Init
    <2>2. started = 0 /\ list = Dir /\ companion = [m \in Modules |-> "none"]
      BY DEF Init, LoadModules
    <2> QED BY <2>1, <2>2, DirAssumption, BoundAssumption DEF DaemonTyped
  <1>2. ConnTyped
    <2>1. Says("nothing") \in [said : Answers, modules : Seq(Modules), from : Nat]
      BY SaysTyped DEF Answers
    <2>2. NoRequest \in [act : Actions \cup {"none"}, index : Nat, of : Modules \cup {Nobody}]
      BY DEF NoRequest
    <2> QED BY <2>1, <2>2 DEF Init, ConnTyped
  <1>3. LoadTyped
    BY BoundAssumption DEF Init, LoadTyped
  <1>4. ProgTyped
    BY DEF Init, ProgTyped, ZygotePcs, AppPcs
  <1> QED BY <1>1, <1>2, <1>3, <1>4, TypeParts

-----------------------------------------------------------------------------
(* The daemon's steps keep the types.                                      *)
LEMMA AcceptTyped == ASSUME TypeOK, Accept PROVE TypeOK'
  <1>1. ConnTyped /\ DaemonTyped /\ LoadTyped /\ ProgTyped
    BY TypeParts
  <1>2. /\ backlog \in Seq(Clients) /\ backlog # <<>>
        /\ serving' = Head(backlog) /\ backlog' = Tail(backlog)
        /\ conn' = [conn EXCEPT ![Head(backlog)] = "open"]
        /\ UNCHANGED <<req, wrote, answer>> /\ UNCHANGED <<daemonVars, loadVars, progVars>>
    BY <1>1 DEF Accept, ConnTyped
  <1>3. Head(backlog) \in Clients /\ Tail(backlog) \in Seq(Clients)
    BY ONLY <1>2, HeadTailProperties
  <1>4. ConnTyped'
    BY <1>1, <1>2, <1>3 DEF ConnTyped
  <1> QED
    BY <1>1, <1>2, <1>4, TypePartsNext, SameDaemonTyped, SameLoadTyped, SameProgTyped

LEMMA ExitTyped == ASSUME TypeOK, Exit PROVE TypeOK'
  <1>1. ConnTyped /\ DaemonTyped /\ LoadTyped /\ ProgTyped
    BY TypeParts
  <1>2. DaemonTyped'
    <2>1. up' \in BOOLEAN /\ clean' \in BOOLEAN
      BY DEF Exit
    <2>2. /\ first' = first /\ started' = started /\ list' = <<>>
          /\ companion' = [m \in Modules |-> "none"]
      BY DEF Exit
    <2>3. first' \in BOOLEAN
      BY <1>1, <2>2 DEF DaemonTyped
    <2> QED BY <1>1, <2>1, <2>2, <2>3 DEF DaemonTyped
  <1>3. ConnTyped'
    <2>1. NoRequest \in [act : Actions \cup {"none"}, index : Nat, of : Modules \cup {Nobody}]
      BY DEF NoRequest
    <2>2. /\ serving' = Nobody /\ backlog' = <<>> /\ answer' = answer
          /\ \A c \in Clients : conn'[c] \in {conn[c], "none", "reset"}
          /\ \A c \in Clients : req'[c] \in {req[c], NoRequest}
          /\ \A c \in Clients : wrote'[c] \in {wrote[c], 0}
          /\ conn' = [c \in Clients |-> conn'[c]] /\ req' = [c \in Clients |-> req'[c]]
          /\ wrote' = [c \in Clients |-> wrote'[c]]
      BY DEF Exit
    <2>3. /\ conn' \in [Clients ->
                {"none", "queued", "open", "handed", "answered", "refused", "reset"}]
          /\ wrote' \in [Clients -> 0 .. 2]
      BY <1>1, <2>2 DEF ConnTyped
    <2>4. req' \in [Clients -> [act : Actions \cup {"none"}, index : Nat,
                      of : Modules \cup {Nobody}]]
      BY <1>1, <2>1, <2>2 DEF ConnTyped
    <2> QED BY <1>1, <2>2, <2>3, <2>4 DEF ConnTyped
  <1>4. UNCHANGED loadVars /\ UNCHANGED progVars
    BY DEF Exit
  <1> QED BY <1>1, <1>2, <1>3, <1>4, TypePartsNext, SameLoadTyped, SameProgTyped

LEMMA RespawnTyped == ASSUME TypeOK, Respawn PROVE TypeOK'
  <1>1. ConnTyped /\ DaemonTyped /\ LoadTyped /\ ProgTyped
    BY TypeParts
  <1>2. DaemonTyped'
    BY <1>1, DirAssumption, BoundAssumption DEF Respawn, DaemonTyped, LoadModules
  <1>3. UNCHANGED connVars /\ UNCHANGED loadVars /\ UNCHANGED progVars
    BY DEF Respawn
  <1> QED BY <1>1, <1>2, <1>3, TypePartsNext, SameConnTyped, SameLoadTyped, SameProgTyped

LEMMA InvalidateTyped == ASSUME TypeOK, InvalidateCleanNs PROVE TypeOK'
  <1>1. ConnTyped /\ DaemonTyped /\ LoadTyped /\ ProgTyped
    BY TypeParts
  <1>2. DaemonTyped'
    BY <1>1 DEF InvalidateCleanNs, Untouched, DaemonTyped
  <1>3. UNCHANGED connVars /\ UNCHANGED loadVars /\ UNCHANGED progVars
    BY DEF InvalidateCleanNs, Untouched
  <1> QED BY <1>1, <1>2, <1>3, TypePartsNext, SameConnTyped, SameLoadTyped, SameProgTyped

LEMMA CompanionDiesTyped ==
    ASSUME TypeOK, NEW m \in Modules, CompanionDies(m) PROVE TypeOK'
  <1>1. ConnTyped /\ DaemonTyped /\ LoadTyped /\ ProgTyped
    BY TypeParts
  <1>2. DaemonTyped'
    BY <1>1 DEF CompanionDies, DaemonTyped
  <1>3. UNCHANGED connVars /\ UNCHANGED loadVars /\ UNCHANGED progVars
    BY DEF CompanionDies
  <1> QED BY <1>1, <1>2, <1>3, TypePartsNext, SameConnTyped, SameLoadTyped, SameProgTyped

-----------------------------------------------------------------------------
(* A step of one connection.                                               *)
OnlyConn(c) ==
    \A d \in Clients \ {c} : /\ conn'[d] = conn[d] /\ req'[d] = req[d]
                             /\ wrote'[d] = wrote[d] /\ answer'[d] = answer[d]

Cleared(c) == conn'[c] = "none" /\ req'[c] = NoRequest /\ wrote'[c] = 0

LEMMA ConnectFacts ==
    ASSUME ConnTyped, NEW c \in Clients, NEW act, NEW i, NEW m, Connect(c, act, i, m)
    PROVE  /\ OnlyConn(c) /\ conn[c] = "none" /\ pcs[c] # "dead"
           /\ \/ up /\ conn'[c] = "queued" /\ backlog' = Append(backlog, c)
              \/ ~up /\ conn'[c] = "refused" /\ backlog' = backlog
           /\ req'[c] = [act |-> act, index |-> i, of |-> m]
           /\ wrote'[c] = wrote[c] /\ answer'[c] = answer[c] /\ serving' = serving
  <1>1. PICK how : /\ conn' = [conn EXCEPT ![c] = how]
                   /\ \/ up /\ how = "queued" /\ backlog' = Append(backlog, c)
                      \/ ~up /\ how = "refused" /\ backlog' = backlog
    BY ConnectCases
  <1>2. /\ conn'[c] = how /\ \A d \in Clients \ {c} : conn'[d] = conn[d]
    BY <1>1 DEF ConnTyped
  <1>3. /\ req'[c] = [act |-> act, index |-> i, of |-> m]
        /\ \A d \in Clients \ {c} : req'[d] = req[d]
    BY ConnectCases DEF ConnTyped
  <1>4. serving' = serving /\ wrote' = wrote /\ answer' = answer
    BY ConnectCases
  <1>5. conn[c] = "none" /\ pcs[c] # "dead"
    BY ConnectCases
  <1>6. OnlyConn(c)
    BY <1>2, <1>3, <1>4 DEF OnlyConn
  <1> QED BY <1>1, <1>2, <1>3, <1>4, <1>5, <1>6

LEMMA CloseFacts ==
    ASSUME ConnTyped, NEW c \in Clients, NEW n, Close(c, n)
    PROVE  OnlyConn(c) /\ Cleared(c) /\ serving' = n /\ backlog' = backlog
  BY DEF ConnTyped, Close, OnlyConn, Cleared

LEMMA EndsFacts ==
    ASSUME ConnTyped, NEW c \in Clients, NEW how, NEW n, Ends(c, how, n),
           \/ UNCHANGED answer
           \/ \E a : answer' = [answer EXCEPT ![c] = a]
    PROVE  /\ OnlyConn(c) /\ serving' = n /\ backlog' = backlog
           /\ conn'[c] = how /\ req'[c] = req[c] /\ wrote'[c] = wrote[c]
  BY DEF ConnTyped, Ends, OnlyConn

LEMMA ReplyFacts ==
    ASSUME ConnTyped, NEW c \in Clients, NEW a, Reply(c, a)
    PROVE  /\ OnlyConn(c) /\ serving' = Nobody /\ backlog' = backlog
           /\ \/ Gone(c) /\ Cleared(c)
              \/ /\ ~Gone(c) /\ conn'[c] = "answered" /\ answer'[c] = a
                 /\ req'[c] = req[c] /\ wrote'[c] = wrote[c]
  <1>1. CASE Gone(c)
    BY <1>1, CloseFacts DEF Reply
  <1>2. CASE ~Gone(c)
    <2>1. Ends(c, "answered", Nobody) /\ answer' = [answer EXCEPT ![c] = a]
      BY <1>2 DEF Reply
    <2>2. answer'[c] = a
      BY <2>1 DEF ConnTyped
    <2> QED BY <1>2, <2>1, <2>2, EndsFacts
  <1> QED BY <1>1, <1>2

LEMMA HangUpFacts ==
    ASSUME ConnTyped, NEW c \in Clients, HangUp(c)
    PROVE  /\ OnlyConn(c) /\ serving' = Nobody /\ backlog' = backlog
           /\ \/ Gone(c) /\ Cleared(c)
              \/ /\ ~Gone(c) /\ conn'[c] = "reset"
                 /\ req'[c] = req[c] /\ wrote'[c] = wrote[c]
  <1>1. CASE Gone(c)
    BY <1>1, CloseFacts DEF HangUp
  <1>2. CASE ~Gone(c)
    <2>1. Ends(c, "reset", Nobody) /\ UNCHANGED answer
      BY <1>2 DEF HangUp
    <2> QED BY <1>2, <2>1, EndsFacts
  <1> QED BY <1>1, <1>2

(* The daemon is done with a client, whose request removed nothing.        *)
Served(c) ==
    /\ up /\ serving = c /\ serving' = Nobody /\ OnlyConn(c)
    /\ up' = up /\ started' = started /\ list' = list /\ backlog' = backlog
    /\ UNCHANGED loadVars /\ UNCHANGED progVars
    /\ \/ Gone(c) /\ Cleared(c)
       \/ /\ req'[c] = req[c] /\ wrote'[c] = wrote[c]
          /\ \/ conn'[c] = "handed" /\ req[c].act = "RequestCompanionSocket"
             \/ ~Gone(c) /\ conn'[c] = "reset" /\ req[c].act = "GetModuleDir"
             \/ /\ ~Gone(c) /\ conn'[c] = "answered"
                /\ req[c].act = "ReadModules" =>
                      answer'[c].modules = list /\ answer'[c].from = started
                /\ req[c].act = "RemoveModule" => ~Indexed(c)

(* One lemma per request.                                                  *)
LEMMA ZygoteRestartServes ==
    ASSUME TypeOK, NEW c \in Clients, ZygoteRestart(c) PROVE Served(c) /\ TypeOK'
  <1>1. ConnTyped /\ DaemonTyped /\ LoadTyped /\ ProgTyped
    BY TypeParts
  <1>2. /\ up /\ serving = c /\ req[c].act = "ZygoteRestart" /\ Reply(c, Says("nothing"))
        /\ UNCHANGED loadVars /\ UNCHANGED progVars
        /\ up' = up /\ started' = started /\ list' = list /\ first' = first /\ clean' = FALSE
    BY DEF ZygoteRestart, Serves, Untouched
  <1>3. \A m \in Modules : companion'[m] \in {"noEntry", "none"}
    BY DEF ZygoteRestart
  <1>4. companion' \in [Modules -> {"none", "noEntry", "live"}]
    BY <1>3 DEF ZygoteRestart
  <1>5. Says("nothing") \in [said : Answers, modules : Seq(Modules), from : Nat]
    BY SaysTyped DEF Answers
  <1>6. DaemonTyped'
    BY <1>1, <1>2, <1>4 DEF DaemonTyped
  <1>7. ConnTyped'
    BY <1>1, <1>2, <1>5, ReplyTyped
  <1>8. Served(c)
    BY <1>1, <1>2, ReplyFacts DEF Served
  <1> QED BY <1>1, <1>2, <1>6, <1>7, <1>8, TypePartsNext, SameLoadTyped, SameProgTyped

LEMMA GetProcessFlagsServes ==
    ASSUME TypeOK, NEW c \in Clients, GetProcessFlags(c) PROVE Served(c) /\ TypeOK'
  <1>1. ConnTyped /\ DaemonTyped /\ LoadTyped /\ ProgTyped
    BY TypeParts
  <1>2. /\ up /\ serving = c /\ req[c].act = "GetProcessFlags"
        /\ Reply(c, Says(IF first THEN "firstStarted" ELSE "flags"))
        /\ UNCHANGED loadVars /\ UNCHANGED progVars
        /\ up' = up /\ started' = started /\ list' = list /\ first' = FALSE /\ clean' = clean
        /\ companion' = companion
    BY DEF GetProcessFlags, Serves, Untouched
  <1>3. Says(IF first THEN "firstStarted" ELSE "flags")
            \in [said : Answers, modules : Seq(Modules), from : Nat]
    BY SaysTyped DEF Answers
  <1>4. DaemonTyped'
    <2>1. first' \in BOOLEAN
      BY <1>2
    <2> QED BY <1>1, <1>2, <2>1 DEF DaemonTyped
  <1>5. ConnTyped'
    BY <1>1, <1>2, <1>3, ReplyTyped
  <1>6. Served(c)
    BY <1>1, <1>2, ReplyFacts DEF Served
  <1> QED BY <1>1, <1>2, <1>4, <1>5, <1>6, TypePartsNext, SameLoadTyped, SameProgTyped

LEMMA ReadModulesServes ==
    ASSUME TypeOK, NEW c \in Clients, ReadModules(c) PROVE Served(c) /\ TypeOK'
  <1> DEFINE a == [said |-> "list", modules |-> list, from |-> started]
  <1>1. ConnTyped /\ DaemonTyped /\ LoadTyped /\ ProgTyped
    BY TypeParts
  <1>2. /\ up /\ serving = c /\ req[c].act = "ReadModules" /\ Reply(c, a)
        /\ UNCHANGED loadVars /\ UNCHANGED progVars /\ UNCHANGED daemonVars
        /\ up' = up /\ started' = started /\ list' = list
    BY DEF ReadModules, Serves, Untouched, daemonVars
  <1>3. a \in [said : Answers, modules : Seq(Modules), from : Nat]
    BY <1>1 DEF Answers, DaemonTyped
  <1>4. a.modules = list /\ a.from = started
    OBVIOUS
  <1> HIDE DEF a
  <1>5. ConnTyped'
    BY <1>1, <1>2, <1>3, ReplyTyped
  <1>6. Served(c)
    BY <1>1, <1>2, <1>4, ReplyFacts DEF Served
  <1> QED BY <1>1, <1>2, <1>5, <1>6, TypePartsNext, SameDaemonTyped, SameLoadTyped, SameProgTyped

LEMMA BadIndexServes ==
    ASSUME TypeOK, NEW c \in Clients, BadIndex(c) PROVE Served(c) /\ TypeOK'
  <1>1. ConnTyped /\ DaemonTyped /\ LoadTyped /\ ProgTyped
    BY TypeParts
  <1>2. /\ up /\ serving = c /\ Reply(c, Says("no")) /\ ~Indexed(c)
        /\ req[c].act \in {"RequestCompanionSocket", "GetModuleDir", "RemoveModule"}
        /\ UNCHANGED loadVars /\ UNCHANGED progVars /\ UNCHANGED daemonVars
        /\ up' = up /\ started' = started /\ list' = list
    BY DEF BadIndex, Serves, Untouched, daemonVars
  <1>3. Says("no") \in [said : Answers, modules : Seq(Modules), from : Nat]
    BY SaysTyped DEF Answers
  <1>4. ConnTyped'
    BY <1>1, <1>2, <1>3, ReplyTyped
  <1>5. Served(c)
    BY <1>1, <1>2, ReplyFacts DEF Served
  <1> QED BY <1>1, <1>2, <1>4, <1>5, TypePartsNext, SameDaemonTyped, SameLoadTyped, SameProgTyped

LEMMA CompanionServes ==
    ASSUME TypeOK, NEW c \in Clients, RequestCompanionSocket(c) PROVE Served(c) /\ TypeOK'
  <1>1. ConnTyped /\ DaemonTyped /\ LoadTyped /\ ProgTyped
    BY TypeParts
  <1>2. /\ up /\ serving = c /\ req[c].act = "RequestCompanionSocket" /\ Indexed(c)
        /\ UNCHANGED loadVars /\ UNCHANGED progVars
        /\ up' = up /\ started' = started /\ list' = list /\ first' = first /\ clean' = clean
    BY DEF RequestCompanionSocket, Serves, Untouched
  <1>3. /\ HandOver(c) \/ Reply(c, Says("no"))
        /\ \/ companion' = companion
           \/ \E v \in {"none", "noEntry", "live"} : companion' = [companion EXCEPT ![Entry(c)] = v]
    <2> DEFINE m == Entry(c)
               Becomes(v) == companion' = [companion EXCEPT ![m] = v]
    <2>1. \/ HandOver(c) /\ UNCHANGED companion
          \/ Reply(c, Says("no")) /\ Becomes("none")
          \/ HandOver(c) /\ Becomes("live")
          \/ Reply(c, Says("no")) /\ Becomes("noEntry")
      BY Zenon DEF RequestCompanionSocket
    <2> QED BY <2>1
  <1>4. DaemonTyped'
    <2>1. companion' \in [Modules -> {"none", "noEntry", "live"}]
      BY <1>1, <1>3 DEF DaemonTyped
    <2> QED BY <1>1, <1>2, <2>1 DEF DaemonTyped
  <1>5. CASE HandOver(c)
    <2>1. /\ serving' = Nobody /\ conn' = [conn EXCEPT ![c] = "handed"]
          /\ backlog' = backlog /\ req' = req /\ wrote' = wrote /\ answer' = answer
      BY <1>5 DEF HandOver
    <2>2. ConnTyped'
      BY <1>1, <2>1 DEF ConnTyped
    <2>3. OnlyConn(c) /\ conn'[c] = "handed"
      BY <1>1, <2>1 DEF ConnTyped, OnlyConn
    <2>4. Served(c)
      BY <1>2, <2>1, <2>3 DEF Served
    <2> QED BY <1>1, <1>2, <1>4, <2>2, <2>4, TypePartsNext, SameLoadTyped, SameProgTyped
  <1>6. CASE Reply(c, Says("no"))
    <2>1. Says("no") \in [said : Answers, modules : Seq(Modules), from : Nat]
      BY SaysTyped DEF Answers
    <2>2. ConnTyped'
      BY <1>1, <1>6, <2>1, ReplyTyped
    <2>3. Served(c)
      BY <1>1, <1>2, <1>6, ReplyFacts DEF Served
    <2> QED BY <1>1, <1>2, <1>4, <2>2, <2>3, TypePartsNext, SameLoadTyped, SameProgTyped
  <1> QED BY <1>3, <1>5, <1>6

LEMMA GetModuleDirServes ==
    ASSUME TypeOK, NEW c \in Clients, GetModuleDir(c) PROVE Served(c) /\ TypeOK'
  <1>1. ConnTyped /\ DaemonTyped /\ LoadTyped /\ ProgTyped
    BY TypeParts
  <1>2. /\ up /\ serving = c /\ (Reply(c, Says("directory")) \/ HangUp(c))
        /\ req[c].act = "GetModuleDir"
        /\ UNCHANGED loadVars /\ UNCHANGED progVars /\ UNCHANGED daemonVars
        /\ up' = up /\ started' = started /\ list' = list
    BY DEF GetModuleDir, Serves, Untouched, daemonVars
  <1>3. Says("directory") \in [said : Answers, modules : Seq(Modules), from : Nat]
    BY SaysTyped DEF Answers
  <1>4. ConnTyped'
    BY <1>1, <1>2, <1>3, ReplyTyped, HangUpTyped
  <1>5. Served(c)
    BY <1>1, <1>2, ReplyFacts, HangUpFacts DEF Served
  <1> QED BY <1>1, <1>2, <1>4, <1>5, TypePartsNext, SameDaemonTyped, SameLoadTyped, SameProgTyped

LEMMA UpdateMountNamespaceServes ==
    ASSUME TypeOK, NEW c \in Clients, UpdateMountNamespace(c) PROVE Served(c) /\ TypeOK'
  <1>1. ConnTyped /\ DaemonTyped /\ LoadTyped /\ ProgTyped
    BY TypeParts
  <1>2. /\ up /\ serving = c /\ req[c].act = "UpdateMountNamespace"
        /\ \E a \in {"namespace", "no"} : Reply(c, Says(a))
        /\ clean' = TRUE \/ clean' = clean
        /\ UNCHANGED loadVars /\ UNCHANGED progVars
        /\ up' = up /\ started' = started /\ list' = list /\ first' = first
        /\ companion' = companion
    BY DEF UpdateMountNamespace, Serves, Untouched
  <1>3. \A a \in {"namespace", "no"} :
            Says(a) \in [said : Answers, modules : Seq(Modules), from : Nat]
    BY SaysTyped DEF Answers
  <1>4. DaemonTyped'
    <2>1. clean' \in BOOLEAN
      BY <1>1, <1>2 DEF DaemonTyped
    <2> QED BY <1>1, <1>2, <2>1 DEF DaemonTyped
  <1>5. ConnTyped'
    BY <1>1, <1>2, <1>3, ReplyTyped
  <1>6. Served(c)
    BY <1>1, <1>2, ReplyFacts DEF Served
  <1> QED BY <1>1, <1>2, <1>4, <1>5, <1>6, TypePartsNext, SameLoadTyped, SameProgTyped

LEMMA ArgumentsUnreadableServes ==
    ASSUME TypeOK, NEW c \in Clients, ArgumentsUnreadable(c) PROVE Served(c) /\ TypeOK'
  <1>1. ConnTyped /\ DaemonTyped /\ LoadTyped /\ ProgTyped
    BY TypeParts
  <1>2. /\ up /\ serving = c /\ HangUp(c) /\ Gone(c)
        /\ UNCHANGED loadVars /\ UNCHANGED progVars /\ UNCHANGED daemonVars
        /\ up' = up /\ started' = started /\ list' = list
    BY DEF ArgumentsUnreadable, daemonVars
  <1>3. ConnTyped'
    BY <1>1, <1>2, HangUpTyped
  <1>4. Served(c)
    BY <1>1, <1>2, HangUpFacts DEF Served
  <1> QED BY <1>1, <1>2, <1>3, <1>4, TypePartsNext, SameDaemonTyped, SameLoadTyped, SameProgTyped

(* The daemon removes the module a request names.                          *)
Removes(c) ==
    /\ up /\ serving = c /\ serving' = Nobody /\ OnlyConn(c)
    /\ req[c].act = "RemoveModule" /\ Indexed(c)
    /\ list' = Without(list, req[c].index + 1)
    /\ up' = up /\ started' = started /\ backlog' = backlog
    /\ UNCHANGED loadVars /\ UNCHANGED progVars
    /\ \/ Gone(c) /\ Cleared(c)
       \/ /\ ~Gone(c) /\ conn'[c] = "answered" /\ answer'[c].said = "yes"
          /\ req'[c] = req[c] /\ wrote'[c] = wrote[c]

(* The index of a request is in the list, one up.                          *)
LEMMA IndexFact ==
    ASSUME TypeOK, NEW c \in Clients, Indexed(c)
    PROVE  req[c].index \in Nat /\ req[c].index + 1 \in 1 .. Len(list)
  <1>1. req[c].index \in Nat /\ list \in Seq(Modules)
    BY DEF TypeOK
  <1> QED BY <1>1 DEF Indexed

LEMMA RemoveModuleRemoves ==
    ASSUME TypeOK, NEW c \in Clients, RemoveModule(c) PROVE Removes(c) /\ TypeOK'
  <1>1. ConnTyped /\ DaemonTyped /\ LoadTyped /\ ProgTyped
    BY TypeParts
  <1>2. /\ up /\ serving = c /\ req[c].act = "RemoveModule" /\ Indexed(c)
        /\ Reply(c, Says("yes"))
        /\ list' = Without(list, req[c].index + 1)
        /\ companion' = [companion EXCEPT ![Entry(c)] = "none"]
        /\ UNCHANGED loadVars /\ UNCHANGED progVars
        /\ up' = up /\ started' = started /\ first' = first /\ clean' = clean
    BY DEF RemoveModule, Serves, Untouched
  <1>3. Says("yes") \in [said : Answers, modules : Seq(Modules), from : Nat]
        /\ Says("yes").said = "yes"
    BY SaysTyped DEF Answers, Says
  <1>4. list' \in Seq(Modules)
    <2>1. list \in Seq(Modules)
      BY <1>1 DEF DaemonTyped
    <2> QED BY <1>2, <2>1, IndexFact, WithoutFact
  <1>5. DaemonTyped'
    BY <1>1, <1>2, <1>4 DEF DaemonTyped
  <1>6. ConnTyped'
    BY <1>1, <1>2, <1>3, ReplyTyped
  <1>7. Removes(c)
    BY <1>1, <1>2, <1>3, ReplyFacts DEF Removes
  <1> QED BY <1>1, <1>2, <1>5, <1>6, <1>7, TypePartsNext, SameLoadTyped, SameProgTyped

LEMMA HandleClientDoes ==
    ASSUME TypeOK, NEW c \in Clients, HandleClient(c)
    PROVE  (Served(c) \/ Removes(c)) /\ TypeOK'
  BY ZygoteRestartServes, GetProcessFlagsServes, ReadModulesServes, BadIndexServes,
     CompanionServes, GetModuleDirServes, UpdateMountNamespaceServes,
     ArgumentsUnreadableServes, RemoveModuleRemoves
     DEF HandleClient

(* The companion is done with a client.                                    *)
Acknowledged(c) ==
    /\ conn[c] = "handed" /\ OnlyConn(c) /\ serving' = serving /\ backlog' = backlog
    /\ UNCHANGED daemonVars /\ UNCHANGED loadVars /\ UNCHANGED progVars
    /\ \/ Dead(c) /\ Cleared(c)
       \/ /\ ~Dead(c) /\ conn'[c] \in {"answered", "reset"}
          /\ req'[c] = req[c] /\ wrote'[c] = wrote[c]

LEMMA CompanionAnswersDoes ==
    ASSUME TypeOK, NEW c \in Clients, CompanionAnswers(c) PROVE Acknowledged(c) /\ TypeOK'
  <1>1. ConnTyped /\ DaemonTyped /\ LoadTyped /\ ProgTyped
    BY TypeParts
  <1>2. /\ conn[c] = "handed" /\ UNCHANGED daemonVars /\ UNCHANGED loadVars
        /\ UNCHANGED progVars
    BY DEF CompanionAnswers
  <1>3. serving \in Clients \cup {Nobody}
    BY <1>1 DEF ConnTyped
  <1>4. Says("yes") \in [said : Answers, modules : Seq(Modules), from : Nat]
    BY SaysTyped DEF Answers
  <1>5. CASE Dead(c)
    <2>1. Close(c, serving)
      BY <1>5 DEF CompanionAnswers
    <2>2. ConnTyped' /\ Acknowledged(c)
      BY <1>1, <1>2, <1>3, <1>5, <2>1, CloseTyped, CloseFacts DEF Acknowledged
    <2> QED
      BY <1>1, <1>2, <2>2, TypePartsNext, SameDaemonTyped, SameLoadTyped, SameProgTyped
  <1>6. CASE ~Dead(c)
    <2>1. PICK how \in {"answered", "reset"} :
              /\ Ends(c, how, serving)
              /\ UNCHANGED answer \/ answer' = [answer EXCEPT ![c] = Says("yes")]
      BY <1>6 DEF CompanionAnswers
    <2>2. ConnTyped'
      BY <1>1, <1>3, <1>4, <2>1, EndsTyped
    <2>3. Acknowledged(c)
      BY <1>1, <1>2, <1>6, <2>1, EndsFacts DEF Acknowledged
    <2> QED
      BY <1>1, <1>2, <2>2, <2>3, TypePartsNext, SameDaemonTyped, SameLoadTyped, SameProgTyped
  <1> QED BY <1>5, <1>6

-----------------------------------------------------------------------------
(* The clients' steps keep the types; what they do, pointwise.             *)
OnlyProgram(c) == \A d \in Clients \ {c} : pcs'[d] = pcs[d]
OnlyLoading(c) ==
    /\ \A y \in Zygotes \ {c} : /\ found'[y] = found[y] /\ readFrom'[y] = readFrom[y]
                                /\ removed'[y] = removed[y] /\ position'[y] = position[y]
    /\ \A d \in (Zygotes \cup Apps) \ {c} : table'[d] = table[d]
SameLoading ==
    /\ found' = found /\ readFrom' = readFrom /\ table' = table
    /\ removed' = removed /\ position' = position
SameDaemonVars == up' = up /\ started' = started /\ list' = list

LEMMA GoesFacts ==
    ASSUME ProgTyped, NEW c \in Clients, NEW pc, Goes(c, pc)
    PROVE  OnlyProgram(c) /\ pcs'[c] = pc
  BY DEF ProgTyped, Goes, OnlyProgram

LEMMA IsClient ==
    /\ Zygotes \subseteq Clients /\ Apps \subseteq Clients /\ Tracer \in Clients
    /\ Zygotes \cap Apps = {} /\ Tracer \notin Zygotes /\ Tracer \notin Apps
    /\ Nobody \notin Clients
  BY ClientAssumption DEF Clients

LEMMA WriteDoes ==
    ASSUME TypeOK, Requests, NEW c \in Zygotes \cup Apps, Write(c)
    PROVE  /\ TypeOK'
           /\ pcs[c] # "dead" /\ ~Complete(c)
           /\ wrote'[c] = wrote[c] + 1 /\ \A d \in Clients \ {c} : wrote'[d] = wrote[d]
           /\ serving' = serving /\ backlog' = backlog /\ conn' = conn /\ req' = req
           /\ answer' = answer
           /\ UNCHANGED daemonVars /\ UNCHANGED loadVars /\ UNCHANGED progVars
  <1>1. ConnTyped /\ DaemonTyped /\ LoadTyped /\ ProgTyped /\ c \in Clients
    BY TypeParts, IsClient
  <1>2. /\ pcs[c] # "dead" /\ ~Complete(c)
        /\ wrote' = [wrote EXCEPT ![c] = @ + 1]
        /\ serving' = serving /\ backlog' = backlog /\ conn' = conn /\ req' = req
        /\ answer' = answer
        /\ UNCHANGED daemonVars /\ UNCHANGED loadVars /\ UNCHANGED progVars
    BY DEF Write
  <1>3. wrote[c] \in 0 .. 2 /\ (wrote[c] = 2 => req[c].act \in WithArguments)
    BY <1>1 DEF ConnTyped, Requests
  <1>4. wrote[c] + 1 \in 0 .. 2
    BY <1>2, <1>3 DEF Complete
  <1>5. wrote' \in [Clients -> 0 .. 2] /\ wrote'[c] = wrote[c] + 1
        /\ \A d \in Clients \ {c} : wrote'[d] = wrote[d]
    BY <1>1, <1>2, <1>4 DEF ConnTyped
  <1>6. ConnTyped'
    BY <1>1, <1>2, <1>5 DEF ConnTyped
  <1> QED
    BY <1>1, <1>2, <1>5, <1>6, TypePartsNext, SameDaemonTyped, SameLoadTyped, SameProgTyped

LEMMA StartZygoteDoes ==
    ASSUME TypeOK, NEW z \in Zygotes, StartZygote(z)
    PROVE  /\ TypeOK'
           /\ pcs[z] = "unborn" /\ (current \in Zygotes => pcs[current] = "dead")
           /\ pcs'[z] \in {"read", "restart"} /\ OnlyProgram(z)
           /\ current' = z /\ parent' = parent
           /\ UNCHANGED daemonVars /\ UNCHANGED connVars /\ UNCHANGED loadVars
  <1>1. ConnTyped /\ DaemonTyped /\ LoadTyped /\ ProgTyped /\ z \in Clients
    BY TypeParts, IsClient
  <1>2. PICK pc \in {"read", "restart"} : Goes(z, pc)
    BY DEF StartZygote
  <1>3. /\ pcs[z] = "unborn" /\ (current \in Zygotes => pcs[current] = "dead")
        /\ current' = z /\ parent' = parent /\ kills' = kills
        /\ UNCHANGED daemonVars /\ UNCHANGED connVars /\ UNCHANGED loadVars
    BY IsClient DEF StartZygote
  <1>4. ProgTyped'
    BY <1>1, <1>2, <1>3 DEF ProgTyped, Goes, ZygotePcs
  <1>5. pcs'[z] \in {"read", "restart"} /\ OnlyProgram(z)
    BY <1>1, <1>2, GoesFacts
  <1> QED
    BY <1>1, <1>3, <1>4, <1>5, TypePartsNext, SameDaemonTyped, SameLoadTyped, SameConnTyped

LEMMA AskRestartDoes ==
    ASSUME TypeOK, NEW z \in Zygotes, AskRestart(z)
    PROVE  /\ TypeOK'
           /\ pcs[z] = "restart" /\ pcs'[z] = "read" /\ OnlyProgram(z)
           /\ current' = current /\ parent' = parent
           /\ UNCHANGED daemonVars /\ UNCHANGED loadVars
           /\ \/ UNCHANGED connVars
              \/ /\ up /\ conn[Tracer] = "none" /\ conn'[Tracer] = "queued" /\ OnlyConn(Tracer)
                 /\ backlog' = Append(backlog, Tracer) /\ serving' = serving
                 /\ req'[Tracer].act = "ZygoteRestart" /\ wrote'[Tracer] = 1
  <1>1. ConnTyped /\ DaemonTyped /\ LoadTyped /\ ProgTyped /\ z \in Clients /\ Tracer \in Clients
    BY TypeParts, IsClient
  <1>2. /\ pcs[z] = "restart" /\ Goes(z, "read") /\ conn[Tracer] = "none"
        /\ current' = current /\ parent' = parent /\ kills' = kills
        /\ UNCHANGED daemonVars /\ UNCHANGED loadVars
    BY DEF AskRestart, Elsewhere
  <1>3. ProgTyped' /\ pcs'[z] = "read" /\ OnlyProgram(z)
    BY <1>1, <1>2, GoesTyped, GoesFacts DEF ZygotePcs
  <1>4. \/ UNCHANGED connVars
        \/ /\ up /\ conn' = [conn EXCEPT ![Tracer] = "queued"]
           /\ backlog' = Append(backlog, Tracer)
           /\ req' = [req EXCEPT ![Tracer] = [NoRequest EXCEPT !.act = "ZygoteRestart"]]
           /\ wrote' = [wrote EXCEPT ![Tracer] = 1]
           /\ serving' = serving /\ answer' = answer
    BY Zenon DEF AskRestart
  <1>5. CASE UNCHANGED connVars
    BY <1>1, <1>2, <1>3, <1>5, TypePartsNext, SameDaemonTyped, SameLoadTyped, SameConnTyped
  <1>6. CASE ~UNCHANGED connVars
    <2>1. backlog' \in Seq(Clients)
      <3>1. backlog \in Seq(Clients)
        BY <1>1 DEF ConnTyped
      <3> QED BY ONLY <1>1, <1>4, <1>6, <3>1, AppendProperties
    <2>2. [NoRequest EXCEPT !.act = "ZygoteRestart"]
              \in [act : Actions \cup {"none"}, index : Nat, of : Modules \cup {Nobody}]
          /\ [NoRequest EXCEPT !.act = "ZygoteRestart"].act = "ZygoteRestart"
      BY DEF NoRequest, Actions
    <2>3. PICK q : /\ q \in [act : Actions \cup {"none"}, index : Nat, of : Modules \cup {Nobody}]
                   /\ req' = [req EXCEPT ![Tracer] = q]
      BY <1>4, <1>6, <2>2
    <2>4. /\ conn' = [conn EXCEPT ![Tracer] = "queued"] /\ wrote' = [wrote EXCEPT ![Tracer] = 1]
          /\ serving' = serving /\ answer' = answer
      BY <1>4, <1>6
    <2>5. ConnTyped'
      BY <1>1, <2>1, <2>3, <2>4 DEF ConnTyped
    <2>6. /\ conn'[Tracer] = "queued" /\ OnlyConn(Tracer)
          /\ req'[Tracer].act = "ZygoteRestart" /\ wrote'[Tracer] = 1
      BY <1>1, <1>4, <1>6, <2>2 DEF ConnTyped, OnlyConn
    <2> QED
      BY <1>1, <1>2, <1>3, <1>4, <1>6, <2>5, <2>6, TypePartsNext, SameDaemonTyped, SameLoadTyped
  <1> QED BY <1>5, <1>6

(* A client that asks, and goes nowhere else.                              *)
LEMMA AsksDoes ==
    ASSUME TypeOK, NEW c \in Clients, NEW act \in Actions, Connect(c, act, 0, Nobody),
           UNCHANGED <<loadVars, progVars, daemonVars>>
    PROVE  TypeOK'
  <1>1. ConnTyped /\ DaemonTyped /\ LoadTyped /\ ProgTyped
    BY TypeParts
  <1>2. UNCHANGED daemonVars /\ UNCHANGED loadVars /\ UNCHANGED progVars
    OBVIOUS
  <1>3. ConnTyped'
    BY <1>1, ConnectTyped
  <1> QED BY <1>1, <1>2, <1>3, TypePartsNext, SameDaemonTyped, SameLoadTyped, SameProgTyped

(* A client that has its answer or an error and has loaded nothing.        *)
Closes(c) ==
    /\ conn[c] \in {"answered", "refused", "reset"}
    /\ OnlyConn(c) /\ Cleared(c) /\ serving' = serving /\ backlog' = backlog
    /\ OnlyProgram(c) /\ current' = current /\ parent' = parent
    /\ SameLoading /\ SameDaemonVars

LEMMA ClosesDoes ==
    ASSUME TypeOK, NEW c \in Clients, Close(c, serving), NEW pc \in ZygotePcs \cup AppPcs,
           Goes(c, pc), conn[c] \in {"answered", "refused", "reset"},
           SameLoading, refused' \in [Zygotes -> 0 .. MaxAttempts], Elsewhere
    PROVE  TypeOK' /\ Closes(c) /\ pcs'[c] = pc
  <1>1. ConnTyped /\ DaemonTyped /\ LoadTyped /\ ProgTyped
    BY TypeParts
  <1>2. /\ UNCHANGED daemonVars /\ SameDaemonVars
        /\ current' = current /\ parent' = parent /\ kills' = kills
    BY DEF Elsewhere, daemonVars, SameDaemonVars
  <1>3. ProgTyped' /\ pcs'[c] = pc /\ OnlyProgram(c)
    BY <1>1, <1>2, GoesTyped, GoesFacts
  <1>4. serving \in Clients \cup {Nobody}
    BY <1>1 DEF ConnTyped
  <1>5. ConnTyped' /\ OnlyConn(c) /\ Cleared(c) /\ serving' = serving /\ backlog' = backlog
    BY <1>1, <1>4, CloseTyped, CloseFacts
  <1>6. LoadTyped'
    BY <1>1 DEF LoadTyped, SameLoading
  <1> QED
    BY <1>1, <1>2, <1>3, <1>5, <1>6, TypePartsNext, SameDaemonTyped DEF Closes

LEMMA ReadAgainDoes ==
    ASSUME TypeOK, NEW z \in Zygotes, ReadAgain(z)
    PROVE  TypeOK' /\ Closes(z) /\ pcs[z] = "read" /\ pcs' = pcs
  <1>1. ConnTyped /\ DaemonTyped /\ LoadTyped /\ ProgTyped /\ z \in Clients
    BY TypeParts, IsClient
  <1>2. /\ pcs[z] = "read" /\ conn[z] = "refused" /\ Close(z, serving)
        /\ refused[z] + 1 < MaxAttempts /\ refused' = [refused EXCEPT ![z] = @ + 1]
        /\ SameLoading /\ UNCHANGED progVars /\ UNCHANGED daemonVars
    BY DEF ReadAgain, SameLoading
  <1>3. refused' \in [Zygotes -> 0 .. MaxAttempts]
    BY <1>1, <1>2, BoundAssumption DEF LoadTyped
  <1>4. serving \in Clients \cup {Nobody}
    BY <1>1 DEF ConnTyped
  <1>5. ConnTyped' /\ OnlyConn(z) /\ Cleared(z) /\ serving' = serving /\ backlog' = backlog
    BY <1>1, <1>2, <1>4, CloseTyped, CloseFacts
  <1>6. LoadTyped'
    BY <1>1, <1>2, <1>3 DEF LoadTyped, SameLoading
  <1>7. /\ pcs' = pcs /\ current' = current /\ parent' = parent /\ OnlyProgram(z)
        /\ SameDaemonVars
    BY <1>2 DEF progVars, daemonVars, OnlyProgram, SameDaemonVars
  <1> QED
    BY <1>1, <1>2, <1>5, <1>6, <1>7, TypePartsNext, SameDaemonTyped, SameProgTyped DEF Closes

LEMMA ReadFailsDoes ==
    ASSUME TypeOK, NEW z \in Zygotes, ReadFails(z)
    PROVE  TypeOK' /\ Closes(z) /\ pcs[z] = "read" /\ pcs'[z] = "bare"
  <1>1. LoadTyped /\ z \in Clients
    BY TypeParts, IsClient
  <1>2. /\ pcs[z] = "read" /\ conn[z] \in {"answered", "refused", "reset"}
        /\ Close(z, serving) /\ Goes(z, "bare") /\ SameLoading /\ Elsewhere
        /\ refused' = [refused EXCEPT ![z] = 0]
    BY DEF ReadFails, SameLoading
  <1>3. refused' \in [Zygotes -> 0 .. MaxAttempts]
    BY <1>1, <1>2, BoundAssumption DEF LoadTyped
  <1> QED BY <1>1, <1>2, <1>3, ClosesDoes DEF ZygotePcs

LEMMA ReadTimesOutDoes ==
    ASSUME TypeOK, NEW z \in Zygotes, ReadTimesOut(z)
    PROVE  /\ TypeOK' /\ pcs[z] = "read" /\ conn[z] \in {"queued", "open"}
           /\ pcs'[z] = "bare" /\ OnlyProgram(z) /\ current' = current /\ parent' = parent
           /\ UNCHANGED connVars /\ SameDaemonVars /\ SameLoading
  <1>1. ConnTyped /\ DaemonTyped /\ LoadTyped /\ ProgTyped /\ z \in Clients
    BY TypeParts, IsClient
  <1>2. /\ pcs[z] = "read" /\ conn[z] \in {"queued", "open"} /\ Goes(z, "bare")
        /\ refused' = [refused EXCEPT ![z] = 0] /\ SameLoading
        /\ UNCHANGED connVars /\ UNCHANGED daemonVars
        /\ current' = current /\ parent' = parent /\ kills' = kills
    BY DEF ReadTimesOut, Elsewhere, SameLoading
  <1>3. LoadTyped'
    BY <1>1, <1>2, BoundAssumption DEF LoadTyped, SameLoading
  <1>4. ProgTyped' /\ pcs'[z] = "bare" /\ OnlyProgram(z)
    <2>1. pcs' \in [Clients -> ZygotePcs \cup AppPcs]
      BY <1>1, <1>2 DEF ProgTyped, Goes, ZygotePcs
    <2>2. pcs'[z] = "bare" /\ OnlyProgram(z)
      BY <1>1, <1>2, GoesFacts
    <2> QED BY <1>1, <1>2, <2>1, <2>2 DEF ProgTyped
  <1>5. SameDaemonVars
    BY <1>2 DEF SameDaemonVars, daemonVars
  <1> QED
    BY <1>1, <1>2, <1>3, <1>4, <1>5, TypePartsNext, SameDaemonTyped, SameConnTyped

LEMMA ReadSucceedsDoes ==
    ASSUME TypeOK, NEW z \in Zygotes, ReadSucceeds(z)
    PROVE  /\ TypeOK'
           /\ pcs[z] = "read" /\ conn[z] = "answered" /\ pcs'[z] = "load"
           /\ OnlyConn(z) /\ Cleared(z) /\ serving' = serving /\ backlog' = backlog
           /\ OnlyProgram(z) /\ current' = current /\ parent' = parent
           /\ OnlyLoading(z) /\ SameDaemonVars
           /\ found'[z] = answer[z].modules /\ readFrom'[z] = answer[z].from
           /\ table'[z] = table[z] /\ removed'[z] = removed[z] /\ position'[z] = position[z]
  <1>1. ConnTyped /\ DaemonTyped /\ LoadTyped /\ ProgTyped /\ z \in Clients
    BY TypeParts, IsClient
  <1>2. /\ pcs[z] = "read" /\ conn[z] = "answered" /\ Close(z, serving) /\ Goes(z, "load")
        /\ found' = [found EXCEPT ![z] = answer[z].modules]
        /\ readFrom' = [readFrom EXCEPT ![z] = answer[z].from]
        /\ refused' = [refused EXCEPT ![z] = 0]
        /\ table' = table /\ removed' = removed /\ position' = position /\ Elsewhere
    BY DEF ReadSucceeds
  <1>3. /\ UNCHANGED daemonVars /\ SameDaemonVars
        /\ current' = current /\ parent' = parent /\ kills' = kills
    BY <1>2 DEF Elsewhere, daemonVars, SameDaemonVars
  <1>4. ProgTyped' /\ pcs'[z] = "load" /\ OnlyProgram(z)
    BY <1>1, <1>2, <1>3, GoesTyped, GoesFacts DEF ZygotePcs
  <1>5. serving \in Clients \cup {Nobody}
    BY <1>1 DEF ConnTyped
  <1>6. ConnTyped' /\ OnlyConn(z) /\ Cleared(z) /\ serving' = serving /\ backlog' = backlog
    BY <1>1, <1>2, <1>5, CloseTyped, CloseFacts
  <1>7. answer[z].modules \in Seq(Modules) /\ answer[z].from \in Nat
    BY <1>1 DEF ConnTyped
  <1>8. LoadTyped'
    BY <1>1, <1>2, <1>7, BoundAssumption DEF LoadTyped
  <1>9. /\ OnlyLoading(z) /\ found'[z] = answer[z].modules /\ readFrom'[z] = answer[z].from
        /\ table'[z] = table[z] /\ removed'[z] = removed[z] /\ position'[z] = position[z]
    BY <1>1, <1>2 DEF LoadTyped, OnlyLoading
  <1> QED BY <1>1, <1>2, <1>3, <1>4, <1>6, <1>8, <1>9, TypePartsNext, SameDaemonTyped

LEMMA ModuleLoadsDoes ==
    ASSUME TypeOK, NEW z \in Zygotes, ModuleLoads(z)
    PROVE  /\ TypeOK'
           /\ pcs[z] = "load" /\ position[z] <= Len(found[z])
           /\ UNCHANGED connVars /\ UNCHANGED progVars /\ UNCHANGED daemonVars
           /\ OnlyLoading(z)
           /\ found'[z] = found[z] /\ readFrom'[z] = readFrom[z] /\ removed'[z] = removed[z]
           /\ table'[z] = Append(table[z], found[z][position[z]])
           /\ position'[z] = position[z] + 1
  <1>1. ConnTyped /\ DaemonTyped /\ LoadTyped /\ ProgTyped
    BY TypeParts
  <1>2. /\ pcs[z] = "load" /\ position[z] <= Len(found[z])
        /\ UNCHANGED connVars /\ UNCHANGED progVars /\ UNCHANGED daemonVars
        /\ table' = [table EXCEPT ![z] = Append(table[z], found[z][position[z]])]
        /\ position' = [position EXCEPT ![z] = position[z] + 1]
        /\ found' = found /\ readFrom' = readFrom /\ removed' = removed /\ refused' = refused
    BY DEF ModuleLoads
  <1>3. found[z] \in Seq(Modules) /\ table[z] \in Seq(Modules) /\ position[z] \in Nat \ {0}
    BY <1>1 DEF LoadTyped
  <1>4. found[z][position[z]] \in Modules
    BY <1>2, <1>3
  <1>5. Append(table[z], found[z][position[z]]) \in Seq(Modules)
    BY ONLY <1>3, <1>4, AppendProperties
  <1>6. table' \in [Zygotes \cup Apps -> Seq(Modules)]
    BY <1>1, <1>2, <1>5 DEF LoadTyped
  <1>7. LoadTyped'
    BY <1>1, <1>2, <1>3, <1>6 DEF LoadTyped
  <1>8. OnlyLoading(z) /\ table'[z] = Append(table[z], found[z][position[z]])
        /\ position'[z] = position[z] + 1
    BY <1>1, <1>2 DEF LoadTyped, OnlyLoading
  <1> QED
    BY <1>1, <1>2, <1>7, <1>8, TypePartsNext, SameDaemonTyped, SameConnTyped, SameProgTyped

LEMMA ModuleFailsDoes ==
    ASSUME TypeOK, Loading, NEW z \in Zygotes, ModuleFails(z)
    PROVE  /\ TypeOK'
           /\ pcs[z] = "load" /\ position[z] <= Len(found[z])
           /\ Connect(z, "RemoveModule", RemovalIndex(z), found[z][position[z]])
           /\ pcs'[z] = "remove" /\ OnlyProgram(z) /\ current' = current /\ parent' = parent
           /\ UNCHANGED loadVars /\ UNCHANGED daemonVars
  <1>1. ConnTyped /\ DaemonTyped /\ LoadTyped /\ ProgTyped /\ z \in Clients
    BY TypeParts, IsClient
  <1>2. /\ pcs[z] = "load" /\ position[z] <= Len(found[z])
        /\ Connect(z, "RemoveModule", RemovalIndex(z), found[z][position[z]])
        /\ Goes(z, "remove") /\ UNCHANGED loadVars /\ Elsewhere
    BY DEF ModuleFails
  <1>3. /\ UNCHANGED daemonVars
        /\ current' = current /\ parent' = parent /\ kills' = kills
    BY <1>2 DEF Elsewhere
  <1>4. ProgTyped' /\ pcs'[z] = "remove" /\ OnlyProgram(z)
    BY <1>1, <1>2, <1>3, GoesTyped, GoesFacts DEF ZygotePcs
  <1>5. /\ found[z] \in Seq(Modules) /\ position[z] \in Nat \ {0} /\ removed[z] \in Nat
        /\ removed[z] < position[z]
    BY <1>1 DEF LoadTyped, Loading, LoopVars
  <1>6. found[z][position[z]] \in Modules /\ RemovalIndex(z) \in Nat
    BY <1>2, <1>5 DEF RemovalIndex
  <1>7. ConnTyped'
    BY <1>1, <1>2, <1>6, ConnectTyped DEF Actions, WithArguments
  <1> QED
    BY <1>1, <1>2, <1>3, <1>4, <1>7, TypePartsNext, SameDaemonTyped, SameLoadTyped

LEMMA RemovalEndsDoes ==
    ASSUME TypeOK, NEW z \in Zygotes, RemovalEnds(z)
    PROVE  /\ TypeOK'
           /\ pcs[z] = "remove" /\ conn[z] \in {"answered", "refused", "reset"}
           /\ pcs'[z] = "load"
           /\ OnlyConn(z) /\ Cleared(z) /\ serving' = serving /\ backlog' = backlog
           /\ OnlyProgram(z) /\ current' = current /\ parent' = parent
           /\ OnlyLoading(z) /\ SameDaemonVars
           /\ found'[z] = found[z] /\ readFrom'[z] = readFrom[z] /\ table'[z] = table[z]
           /\ removed'[z] = IF conn[z] = "answered" /\ answer[z].said = "yes"
                            THEN removed[z] + 1 ELSE removed[z]
           /\ position'[z] = position[z] + 1
  <1> DEFINE r == IF conn[z] = "answered" /\ answer[z].said = "yes"
                  THEN removed[z] + 1 ELSE removed[z]
  <1>1. ConnTyped /\ DaemonTyped /\ LoadTyped /\ ProgTyped /\ z \in Clients
    BY TypeParts, IsClient
  <1>2. /\ pcs[z] = "remove" /\ conn[z] \in {"answered", "refused", "reset"}
        /\ Close(z, serving) /\ Goes(z, "load")
        /\ removed' = [removed EXCEPT ![z] = r]
        /\ position' = [position EXCEPT ![z] = position[z] + 1]
        /\ found' = found /\ readFrom' = readFrom /\ table' = table /\ refused' = refused
        /\ Elsewhere
    BY DEF RemovalEnds
  <1>3. /\ UNCHANGED daemonVars /\ SameDaemonVars
        /\ current' = current /\ parent' = parent /\ kills' = kills
    BY <1>2 DEF Elsewhere, daemonVars, SameDaemonVars
  <1>4. ProgTyped' /\ pcs'[z] = "load" /\ OnlyProgram(z)
    BY <1>1, <1>2, <1>3, GoesTyped, GoesFacts DEF ZygotePcs
  <1>5. serving \in Clients \cup {Nobody}
    BY <1>1 DEF ConnTyped
  <1>6. ConnTyped' /\ OnlyConn(z) /\ Cleared(z) /\ serving' = serving /\ backlog' = backlog
    BY <1>1, <1>2, <1>5, CloseTyped, CloseFacts
  <1>7. r \in Nat /\ position[z] + 1 \in Nat \ {0}
    BY <1>1 DEF LoadTyped
  <1> HIDE DEF r
  <1>8. LoadTyped'
    BY <1>1, <1>2, <1>7 DEF LoadTyped
  <1>9. /\ OnlyLoading(z) /\ found'[z] = found[z] /\ readFrom'[z] = readFrom[z]
        /\ table'[z] = table[z] /\ removed'[z] = r /\ position'[z] = position[z] + 1
    BY <1>1, <1>2 DEF LoadTyped, OnlyLoading
  <1> QED
    BY <1>1, <1>2, <1>3, <1>4, <1>6, <1>8, <1>9, TypePartsNext, SameDaemonTyped DEF r

LEMMA LoadingEndsDoes ==
    ASSUME TypeOK, NEW z \in Zygotes, LoadingEnds(z)
    PROVE  /\ TypeOK'
           /\ pcs[z] = "load" /\ position[z] > Len(found[z])
           /\ pcs'[z] = "ready" /\ OnlyProgram(z) /\ current' = current /\ parent' = parent
           /\ UNCHANGED connVars /\ SameDaemonVars
           /\ OnlyLoading(z)
           /\ found'[z] = <<>> /\ removed'[z] = 0 /\ position'[z] = 1
           /\ readFrom'[z] = readFrom[z] /\ table'[z] = table[z]
  <1>1. ConnTyped /\ DaemonTyped /\ LoadTyped /\ ProgTyped /\ z \in Clients
    BY TypeParts, IsClient
  <1>2. /\ pcs[z] = "load" /\ position[z] > Len(found[z]) /\ Goes(z, "ready")
        /\ found' = [found EXCEPT ![z] = <<>>]
        /\ removed' = [removed EXCEPT ![z] = 0]
        /\ position' = [position EXCEPT ![z] = 1]
        /\ UNCHANGED connVars
        /\ readFrom' = readFrom /\ table' = table /\ refused' = refused /\ Elsewhere
    BY DEF LoadingEnds, connVars
  <1>3. /\ UNCHANGED daemonVars /\ SameDaemonVars
        /\ current' = current /\ parent' = parent /\ kills' = kills
    BY <1>2 DEF Elsewhere, daemonVars, SameDaemonVars
  <1>4. ProgTyped' /\ pcs'[z] = "ready" /\ OnlyProgram(z)
    BY <1>1, <1>2, <1>3, GoesTyped, GoesFacts DEF ZygotePcs
  <1>5. LoadTyped'
    BY <1>1, <1>2 DEF LoadTyped
  <1>6. /\ OnlyLoading(z) /\ found'[z] = <<>> /\ removed'[z] = 0 /\ position'[z] = 1
        /\ readFrom'[z] = readFrom[z] /\ table'[z] = table[z]
    BY <1>1, <1>2 DEF LoadTyped, OnlyLoading
  <1> QED
    BY <1>1, <1>2, <1>3, <1>4, <1>5, <1>6, TypePartsNext, SameDaemonTyped, SameConnTyped

LEMMA ForkDoes ==
    ASSUME TypeOK, NEW z \in Zygotes, NEW a \in Apps, Fork(z, a)
    PROVE  /\ TypeOK'
           /\ pcs[z] \in {"ready", "bare"} /\ pcs[a] = "unborn"
           /\ pcs'[a] = "flags" /\ OnlyProgram(a) /\ current' = current
           /\ parent'[a] = z /\ (\A b \in Apps \ {a} : parent'[b] = parent[b])
           /\ UNCHANGED connVars /\ SameDaemonVars
           /\ OnlyLoading(a) /\ table'[a] = table[z]
  <1>1. ConnTyped /\ DaemonTyped /\ LoadTyped /\ ProgTyped /\ a \in Clients /\ z # a
        /\ a \notin Zygotes
    BY TypeParts, IsClient
  <1>2. /\ pcs[z] \in {"ready", "bare"} /\ pcs[a] = "unborn" /\ Goes(a, "flags")
        /\ table' = [table EXCEPT ![a] = table[z]]
        /\ parent' = [parent EXCEPT ![a] = z]
        /\ found' = found /\ readFrom' = readFrom /\ removed' = removed
        /\ position' = position /\ refused' = refused
        /\ current' = current /\ kills' = kills
        /\ UNCHANGED daemonVars /\ UNCHANGED connVars
    BY DEF Fork
  <1>3. /\ parent' \in [Apps -> Zygotes \cup {Nobody}] /\ parent'[a] = z
        /\ \A b \in Apps \ {a} : parent'[b] = parent[b]
    BY <1>1, <1>2 DEF ProgTyped
  <1>4. ProgTyped' /\ pcs'[a] = "flags" /\ OnlyProgram(a)
    BY <1>1, <1>2, <1>3, GoesFacts DEF ProgTyped, Goes, AppPcs
  <1>5. LoadTyped'
    BY <1>1, <1>2 DEF LoadTyped
  <1>6. OnlyLoading(a) /\ table'[a] = table[z] /\ SameDaemonVars
    BY <1>1, <1>2 DEF LoadTyped, OnlyLoading, SameDaemonVars, daemonVars
  <1> QED
    BY <1>1, <1>2, <1>3, <1>4, <1>5, <1>6, TypePartsNext, SameDaemonTyped, SameConnTyped

(* An app that asks for its flags or a namespace, that has an answer, and  *)
(* one whose modules have run.                                             *)
AppAsks(a) ==
    /\ \E act \in {"GetProcessFlags", "UpdateMountNamespace"} : Connect(a, act, 0, Nobody)
    /\ pcs[a] # "unborn"
    /\ UNCHANGED loadVars /\ UNCHANGED progVars /\ UNCHANGED daemonVars
AppRan(a) ==
    /\ pcs[a] # "unborn" /\ pcs'[a] # "unborn"
    /\ OnlyProgram(a) /\ current' = current /\ parent' = parent
    /\ UNCHANGED connVars /\ UNCHANGED loadVars /\ UNCHANGED daemonVars

LEMMA AppAsksDoes ==
    ASSUME TypeOK, NEW a \in Apps, AskFlags(a) \/ AskNamespace(a)
    PROVE  TypeOK' /\ AppAsks(a)
  <1>1. PICK act \in {"GetProcessFlags", "UpdateMountNamespace"} :
            /\ Connect(a, act, 0, Nobody) /\ pcs[a] # "unborn"
            /\ UNCHANGED <<loadVars, progVars, daemonVars>>
    BY DEF AskFlags, AskNamespace
  <1>2. a \in Clients /\ act \in Actions
    BY IsClient DEF Actions, WithArguments
  <1>3. TypeOK'
    BY <1>1, <1>2, AsksDoes
  <1> QED BY <1>1, <1>3 DEF AppAsks

LEMMA AppClosesDoes ==
    ASSUME TypeOK, NEW a \in Apps,
           HasFlags(a) \/ NoFlags(a) \/ NamespaceEnds(a) \/ ModuleAnswered(a)
    PROVE  TypeOK' /\ Closes(a) /\ pcs[a] # "unborn" /\ pcs'[a] # "unborn"
  <1>1. LoadTyped /\ a \in Clients
    BY TypeParts, IsClient
  <1>2. /\ conn[a] \in {"answered", "refused", "reset"} /\ pcs[a] # "unborn"
        /\ Close(a, serving) /\ UNCHANGED loadVars /\ Elsewhere
    BY DEF HasFlags, NoFlags, NamespaceEnds, ModuleAnswered
  <1>3. \E pc \in {"first", "deny", "retry", "done", "modules"} : Goes(a, pc)
    <2>1. CASE HasFlags(a)
      <3>1. CASE a \in Denylisted
        BY ZenonT(60), <2>1, <3>1 DEF HasFlags
      <3>2. CASE a \notin Denylisted /\ answer[a].said = "firstStarted"
        BY ZenonT(60), <2>1, <3>2 DEF HasFlags
      <3>3. CASE a \notin Denylisted /\ answer[a].said # "firstStarted"
        BY ZenonT(60), <2>1, <3>3 DEF HasFlags
      <3> QED BY <3>1, <3>2, <3>3
    <2>2. CASE NoFlags(a) \/ NamespaceEnds(a) \/ ModuleAnswered(a)
      BY <2>2 DEF NoFlags, NamespaceEnds, ModuleAnswered
    <2> QED BY <2>1, <2>2
  <1>4. SameLoading /\ refused' \in [Zygotes -> 0 .. MaxAttempts]
    BY <1>1, <1>2 DEF loadVars, SameLoading, LoadTyped
  <1>5. PICK pc \in {"first", "deny", "retry", "done", "modules"} : Goes(a, pc)
    BY <1>3
  <1>6. pc \in ZygotePcs \cup AppPcs /\ pc # "unborn"
    BY DEF AppPcs
  <1> QED BY <1>1, <1>2, <1>4, <1>5, <1>6, ClosesDoes

LEMMA ModulesRanDoes ==
    ASSUME TypeOK, NEW a \in Apps, ModulesRan(a)
    PROVE  TypeOK' /\ AppRan(a)
  <1>1. ConnTyped /\ DaemonTyped /\ LoadTyped /\ ProgTyped /\ a \in Clients
    BY TypeParts, IsClient
  <1>2. PICK pc \in {"done", "revert"} : Goes(a, pc)
    BY DEF ModulesRan
  <1>3. /\ pcs[a] # "unborn" /\ UNCHANGED connVars /\ UNCHANGED loadVars
        /\ UNCHANGED daemonVars /\ current' = current /\ parent' = parent /\ kills' = kills
    BY DEF ModulesRan, Elsewhere
  <1>4. ProgTyped' /\ pcs'[a] = pc /\ OnlyProgram(a)
    BY <1>1, <1>2, <1>3, GoesTyped, GoesFacts DEF AppPcs
  <1> QED
    BY <1>1, <1>3, <1>4, TypePartsNext, SameDaemonTyped, SameConnTyped, SameLoadTyped
       DEF AppRan

LEMMA ModuleAsksDoes ==
    ASSUME TypeOK, NEW a \in Apps, ModuleAsks(a)
    PROVE  /\ TypeOK'
           /\ pcs[a] = "modules" /\ pcs'[a] = "asked" /\ OnlyProgram(a)
           /\ current' = current /\ parent' = parent
           /\ UNCHANGED loadVars /\ UNCHANGED daemonVars
           /\ \E i \in 1 .. Len(table[a]), act \in ByIndex : Connect(a, act, i - 1, table[a][i])
  <1>1. ConnTyped /\ DaemonTyped /\ LoadTyped /\ ProgTyped /\ a \in Clients
    BY TypeParts, IsClient
  <1>2. PICK i \in 1 .. Len(table[a]), act \in ByIndex : Connect(a, act, i - 1, table[a][i])
    BY DEF ModuleAsks, ByIndex
  <1>3. /\ pcs[a] = "modules" /\ Goes(a, "asked") /\ UNCHANGED loadVars
        /\ UNCHANGED daemonVars /\ current' = current /\ parent' = parent /\ kills' = kills
    BY DEF ModuleAsks, Elsewhere
  <1>4. ProgTyped' /\ pcs'[a] = "asked" /\ OnlyProgram(a)
    BY <1>1, <1>3, GoesTyped, GoesFacts DEF AppPcs
  <1>5. table[a] \in Seq(Modules)
    BY <1>1 DEF LoadTyped
  <1>6. table[a][i] \in Modules /\ i - 1 \in Nat
    BY <1>5
  <1>7. ConnTyped'
    BY <1>1, <1>2, <1>6, ConnectTyped DEF Actions, WithArguments, ByIndex
  <1> QED
    BY <1>1, <1>2, <1>3, <1>4, <1>7, TypePartsNext, SameDaemonTyped, SameLoadTyped

LEMMA KillDoes ==
    ASSUME TypeOK, NEW c \in Zygotes \cup Apps, Kill(c)
    PROVE  /\ TypeOK'
           /\ pcs[c] \notin {"unborn", "dead"} /\ (c \in Zygotes => c = current)
           /\ pcs'[c] = "dead" /\ OnlyProgram(c) /\ current' = current /\ parent' = parent
           /\ SameDaemonVars
           /\ OnlyLoading(c) /\ readFrom' = readFrom /\ table'[c] = <<>>
           /\ (c \in Zygotes => found'[c] = <<>> /\ removed'[c] = 0 /\ position'[c] = 1)
           /\ \/ Waiting(c) /\ UNCHANGED connVars
              \/ /\ ~Waiting(c) /\ OnlyConn(c) /\ Cleared(c)
                 /\ serving' = serving /\ backlog' = backlog
  <1>1. ConnTyped /\ DaemonTyped /\ LoadTyped /\ ProgTyped /\ c \in Clients
    BY TypeParts, IsClient
  <1>2. /\ pcs[c] \notin {"unborn", "dead"} /\ (c \in Zygotes => c = current)
        /\ Goes(c, "dead") /\ kills' = kills + 1
        /\ table' = [table EXCEPT ![c] = <<>>]
        /\ found' = [z \in Zygotes |-> IF z = c THEN <<>> ELSE found[z]]
        /\ removed' = [z \in Zygotes |-> IF z = c THEN 0 ELSE removed[z]]
        /\ position' = [z \in Zygotes |-> IF z = c THEN 1 ELSE position[z]]
        /\ refused' = [z \in Zygotes |-> IF z = c THEN 0 ELSE refused[z]]
        /\ UNCHANGED daemonVars /\ readFrom' = readFrom
        /\ current' = current /\ parent' = parent
    BY DEF Kill
  <1>3. ProgTyped' /\ pcs'[c] = "dead" /\ OnlyProgram(c)
    <2>1. pcs' \in [Clients -> ZygotePcs \cup AppPcs]
      BY <1>1, <1>2 DEF ProgTyped, Goes, ZygotePcs
    <2>2. kills' \in Nat
      BY <1>1, <1>2 DEF ProgTyped
    <2>3. pcs'[c] = "dead" /\ OnlyProgram(c)
      BY <1>1, <1>2, GoesFacts
    <2> QED BY <1>1, <1>2, <2>1, <2>2, <2>3 DEF ProgTyped
  <1>4. LoadTyped'
    <2>1. found' \in [Zygotes -> Seq(Modules)]
      BY <1>1, <1>2 DEF LoadTyped
    <2>2. table' \in [Zygotes \cup Apps -> Seq(Modules)]
      BY <1>1, <1>2 DEF LoadTyped
    <2>3. /\ removed' \in [Zygotes -> Nat] /\ position' \in [Zygotes -> Nat \ {0}]
          /\ refused' \in [Zygotes -> 0 .. MaxAttempts]
      BY <1>1, <1>2, BoundAssumption DEF LoadTyped
    <2> QED BY <1>1, <1>2, <2>1, <2>2, <2>3 DEF LoadTyped
  <1>5. /\ OnlyLoading(c) /\ table'[c] = <<>> /\ SameDaemonVars
        /\ (c \in Zygotes => found'[c] = <<>> /\ removed'[c] = 0 /\ position'[c] = 1)
    BY <1>1, <1>2 DEF LoadTyped, OnlyLoading, SameDaemonVars, daemonVars
  <1>6. CASE Waiting(c)
    <2>1. UNCHANGED connVars
      BY <1>6 DEF Kill
    <2> QED
      BY <1>1, <1>2, <1>3, <1>4, <1>5, <1>6, <2>1, TypePartsNext, SameDaemonTyped, SameConnTyped
  <1>7. CASE ~Waiting(c)
    <2>1. Close(c, serving) /\ serving \in Clients \cup {Nobody}
      BY <1>1, <1>7 DEF Kill, ConnTyped
    <2>2. ConnTyped' /\ OnlyConn(c) /\ Cleared(c) /\ serving' = serving /\ backlog' = backlog
      BY <1>1, <2>1, CloseTyped, CloseFacts
    <2> QED
      BY <1>1, <1>2, <1>3, <1>4, <1>5, <1>7, <2>2, TypePartsNext, SameDaemonTyped
  <1> QED BY <1>6, <1>7

-----------------------------------------------------------------------------
(* What the proofs of the invariant need of the types.                     *)
Typing ==
    /\ up \in BOOLEAN /\ started \in Nat /\ list \in Seq(Modules)
    /\ current \in Zygotes \cup {Nobody} /\ backlog \in Seq(Clients)
    /\ serving \in Clients \cup {Nobody}
    /\ \A c \in Clients :
          /\ conn[c] \in {"none", "queued", "open", "handed", "answered", "refused", "reset"}
          /\ req[c].index \in Nat
    /\ \A z \in Zygotes :
          /\ found[z] \in Seq(Modules) /\ table[z] \in Seq(Modules) /\ readFrom[z] \in Nat
          /\ removed[z] \in Nat /\ position[z] \in Nat \ {0} /\ answer[z].from \in Nat
    /\ \A a \in Apps : table[a] \in Seq(Modules) /\ parent[a] \in Zygotes \cup {Nobody}

LEMMA TypingFact == TypeOK => Typing
  <1> SUFFICES ASSUME TypeOK PROVE Typing
    OBVIOUS
  <1>1. ConnTyped /\ DaemonTyped /\ LoadTyped /\ ProgTyped
    BY TypeParts
  <1>2. /\ up \in BOOLEAN /\ started \in Nat /\ list \in Seq(Modules)
        /\ current \in Zygotes \cup {Nobody} /\ backlog \in Seq(Clients)
        /\ serving \in Clients \cup {Nobody}
    BY <1>1, BoundAssumption DEF DaemonTyped, ConnTyped, ProgTyped
  <1>3. \A c \in Clients :
          /\ conn[c] \in {"none", "queued", "open", "handed", "answered", "refused", "reset"}
          /\ req[c].index \in Nat
    BY <1>1 DEF ConnTyped
  <1>4. \A z \in Zygotes : answer[z].from \in Nat
    BY <1>1, IsClient DEF ConnTyped
  <1>5. \A z \in Zygotes :
          /\ found[z] \in Seq(Modules) /\ table[z] \in Seq(Modules) /\ readFrom[z] \in Nat
          /\ removed[z] \in Nat /\ position[z] \in Nat \ {0}
    BY <1>1 DEF LoadTyped
  <1>6. \A a \in Apps : table[a] \in Seq(Modules) /\ parent[a] \in Zygotes \cup {Nobody}
    BY <1>1 DEF LoadTyped, ProgTyped
  <1> QED BY <1>2, <1>3, <1>4, <1>5, <1>6 DEF Typing

LEMMA TypingNext == TypeOK' => Typing'
  BY TypingFact, PTL

-----------------------------------------------------------------------------
(* The queue.                                                              *)
LEMMA QueueSame ==
    ASSUME Queue, \A c \in Clients : conn'[c] = conn[c],
           backlog' = backlog, serving' = serving, up' = up
    PROVE  Queue'
  BY DEF Queue

LEMMA QueueOther ==
    ASSUME Queue, NEW c \in Clients, conn[c] \notin {"queued", "open"},
           conn'[c] \notin {"queued", "open"}, \A d \in Clients \ {c} : conn'[d] = conn[d],
           backlog' = backlog, serving' = serving, up' = up
    PROVE  Queue'
  BY DEF Queue

LEMMA QueueLeave ==
    ASSUME Queue, NEW c \in Clients, serving = c, serving' = Nobody,
           conn'[c] \notin {"queued", "open"}, \A d \in Clients \ {c} : conn'[d] = conn[d],
           backlog' = backlog, up' = up
    PROVE  Queue'
  BY IsClient DEF Queue

LEMMA QueueJoin ==
    ASSUME Queue, Typing, NEW c \in Clients, up, conn[c] = "none", conn'[c] = "queued",
           \A d \in Clients \ {c} : conn'[d] = conn[d],
           backlog' = Append(backlog, c), serving' = serving, up' = up
    PROVE  Queue'
  <1>1. backlog \in Seq(Clients)
    BY DEF Typing
  <1>2. /\ Len(backlog') = Len(backlog) + 1 /\ backlog'[Len(backlog) + 1] = c
        /\ \A i \in 1 .. Len(backlog) : backlog'[i] = backlog[i]
    BY ONLY <1>1, backlog' = Append(backlog, c), c \in Clients, AppendProperties
  <1>3. Len(backlog) \in Nat
    BY <1>1
  <1>4. \A i \in 1 .. Len(backlog) : backlog[i] # c
    BY DEF Queue
  <1>5. \A d \in Clients :
            conn'[d] = "queued" <=> \E i \in 1 .. Len(backlog') : backlog'[i] = d
    BY <1>2, <1>3, <1>4 DEF Queue
  <1>6. \A i, j \in 1 .. Len(backlog') : backlog'[i] = backlog'[j] => i = j
    BY <1>2, <1>3, <1>4 DEF Queue
  <1>7. \A d \in Clients : conn'[d] = "open" <=> serving' = d
    BY DEF Queue
  <1> QED BY <1>5, <1>6, <1>7 DEF Queue

LEMMA QueueAccept ==
    ASSUME Queue, Typing, up, up' = up, serving = Nobody, backlog # <<>>,
           serving' = Head(backlog), backlog' = Tail(backlog),
           conn'[Head(backlog)] = "open",
           \A d \in Clients \ {Head(backlog)} : conn'[d] = conn[d]
    PROVE  /\ Queue' /\ Head(backlog) \in Clients /\ conn[Head(backlog)] = "queued"
           /\ Len(backlog') = Len(backlog) - 1 /\ Head(backlog) = backlog[1]
           /\ \A i \in 1 .. Len(backlog') : backlog'[i] = backlog[i + 1]
  <1>1. backlog \in Seq(Clients)
    BY DEF Typing
  <1>2. /\ Head(backlog) \in Clients /\ Tail(backlog) \in Seq(Clients)
        /\ Len(Tail(backlog)) = Len(backlog) - 1
        /\ \A i \in 1 .. Len(Tail(backlog)) : Tail(backlog)[i] = backlog[i + 1]
    BY ONLY <1>1, backlog # <<>>, HeadTailProperties
  <1>3. Head(backlog) = backlog[1] /\ Len(backlog) \in Nat \ {0}
    BY <1>1
  <1>4. conn[Head(backlog)] = "queued"
    BY <1>2, <1>3 DEF Queue
  <1> DEFINE h == Head(backlog)
  <1> HIDE DEF h
  <1>5. /\ h \in Clients /\ h = backlog[1] /\ conn'[h] = "open" /\ serving' = h
        /\ \A d \in Clients \ {h} : conn'[d] = conn[d]
        /\ Len(backlog') = Len(backlog) - 1
        /\ \A i \in 1 .. Len(backlog') : backlog'[i] = backlog[i + 1]
    BY <1>2, <1>3 DEF h
  <1>6. \A d \in Clients :
            conn'[d] = "queued" <=> \E i \in 1 .. Len(backlog') : backlog'[i] = d
    <2> TAKE d \in Clients
    <2>1. ASSUME conn'[d] = "queued" PROVE \E i \in 1 .. Len(backlog') : backlog'[i] = d
      <3>1. d # h /\ conn[d] = "queued"
        BY <1>5, <2>1
      <3>2. PICK i \in 1 .. Len(backlog) : backlog[i] = d
        BY <3>1 DEF Queue
      <3>3. i - 1 \in 1 .. Len(backlog') /\ backlog'[i - 1] = d
        BY <1>3, <1>5, <3>1, <3>2
      <3> QED BY <3>3
    <2>2. ASSUME NEW i \in 1 .. Len(backlog'), backlog'[i] = d PROVE conn'[d] = "queued"
      <3>1. i + 1 \in 1 .. Len(backlog) /\ backlog[i + 1] = d /\ i + 1 # 1
        BY <1>3, <1>5, <2>2
      <3>2. conn[d] = "queued" /\ d # h
        BY <1>3, <1>5, <3>1 DEF Queue
      <3> QED BY <1>5, <3>2
    <2> QED BY <2>1, <2>2
  <1>7. \A i, j \in 1 .. Len(backlog') : backlog'[i] = backlog'[j] => i = j
    <2> TAKE i, j \in 1 .. Len(backlog')
    <2>1. i + 1 \in 1 .. Len(backlog) /\ j + 1 \in 1 .. Len(backlog)
          /\ backlog'[i] = backlog[i + 1] /\ backlog'[j] = backlog[j + 1]
      BY <1>3, <1>5
    <2>2. backlog[i + 1] = backlog[j + 1] => i + 1 = j + 1
      BY <2>1 DEF Queue
    <2> QED BY <2>1, <2>2
  <1>8. \A d \in Clients : conn'[d] = "open" <=> serving' = d
    BY <1>5, IsClient DEF Queue
  <1>9. Queue'
    BY <1>6, <1>7, <1>8 DEF Queue
  <1> QED BY <1>2, <1>3, <1>4, <1>5, <1>9 DEF h

-----------------------------------------------------------------------------
(* Steps that leave what the indices rest on alone.                        *)
SameLists ==
    /\ SameDaemonVars /\ current' = current
    /\ current \in Zygotes =>
          /\ pcs'[current] = pcs[current]
          /\ found'[current] = found[current] /\ readFrom'[current] = readFrom[current]
          /\ table'[current] = table[current]
          /\ removed'[current] = removed[current] /\ position'[current] = position[current]
    /\ \A a \in Apps : parent'[a] = parent[a] /\ table'[a] = table[a]

LEMMA InStepSame ==
    ASSUME InStep, SameLists,
           current \in Zygotes => /\ conn'[current] = conn[current]
                                  /\ req'[current] = req[current]
                                  /\ answer'[current] = answer[current]
    PROVE  InStep'
  <1>1. up' = up /\ started' = started /\ list' = list /\ current' = current
    BY DEF SameLists, SameDaemonVars
  <1>2. ASSUME current \in Zygotes
        PROVE  /\ pcs'[current] = pcs[current] /\ conn'[current] = conn[current]
               /\ req'[current] = req[current] /\ answer'[current] = answer[current]
               /\ found'[current] = found[current] /\ readFrom'[current] = readFrom[current]
               /\ table'[current] = table[current]
               /\ removed'[current] = removed[current] /\ position'[current] = position[current]
    BY <1>2 DEF SameLists
  <1>3. \A a \in Apps : parent'[a] = parent[a] /\ table'[a] = table[a]
    BY DEF SameLists
  <1> SUFFICES ASSUME current \in Zygotes
               PROVE  (/\ HasRead(current) /\ HasLoaded(current) /\ HasRemoved(current)
                       /\ IsReady(current) /\ HasForked(current))'
    BY <1>1 DEF InStep
  <1>4. /\ HasRead(current) /\ HasLoaded(current) /\ HasRemoved(current)
        /\ IsReady(current) /\ HasForked(current)
    BY DEF InStep
  <1>5. HasRead(current)'
    BY <1>1, <1>2, <1>4 DEF HasRead
  <1>6. HasLoaded(current)'
    BY <1>1, <1>2, <1>4 DEF HasLoaded, SameDaemon, Joins
  <1>7. HasRemoved(current)'
    BY <1>1, <1>2, <1>4 DEF HasRemoved, SameDaemon, Joins
  <1>8. IsReady(current)'
    BY <1>1, <1>2, <1>4 DEF IsReady, SameDaemon, Same
  <1>9. HasForked(current)'
    BY <1>1, <1>2, <1>3, <1>4 DEF HasForked, SameDaemon, Same
  <1> QED BY <1>5, <1>6, <1>7, <1>8, <1>9

(* What a request names.                                                   *)
LEMMA NamesSame ==
    ASSUME NEW c \in Clients, NEW m, list' = list, req'[c] = req[c], SameModule(c, m)
    PROVE  SameModule(c, m)'
  BY DEF SameModule, Indexed, Entry

(* A request of a zygote is one of a zygote that was started.              *)
LEMMA CurrentIs ==
    ASSUME Requests, Lineage, NEW z \in Zygotes, ~Idle(z)
    PROVE  current \in Zygotes
  BY DEF Requests, Lineage

(* The connection of a zygote that has children is closed or as it was.    *)
LEMMA LineageKept ==
    ASSUME Lineage, pcs' = pcs, current' = current, parent' = parent,
           \A z \in Zygotes : pcs[z] \in {"ready", "bare", "dead"} =>
              \/ conn'[z] = "none"
              \/ conn'[z] = conn[z] /\ req'[z] = req[z]
    PROVE  Lineage'
  <1>1. ASSUME NEW a \in Apps, parent'[a] \in Zygotes
        PROVE  /\ pcs'[parent'[a]] \in {"ready", "bare", "dead"}
               /\ \/ conn'[parent'[a]] = "none"
                  \/ /\ conn'[parent'[a]] \in {"queued", "open"}
                     /\ req'[parent'[a]].act = "ReadModules"
    <2>1. /\ parent[a] \in Zygotes /\ pcs[parent[a]] \in {"ready", "bare", "dead"}
          /\ Idle(parent[a]) \/ (Pending(parent[a]) /\ req[parent[a]].act = "ReadModules")
      BY <1>1 DEF Lineage
    <2>2. \/ conn'[parent[a]] = "none"
          \/ conn'[parent[a]] = conn[parent[a]] /\ req'[parent[a]] = req[parent[a]]
      BY <2>1
    <2> QED BY <2>1, <2>2
  <1> QED BY <1>1 DEF Lineage

(* What is still to be served for a zygote that is gone was so before.     *)
LEMMA InOrderKept ==
    ASSUME InOrder, Requests, Lineage, current' = current, backlog' = backlog,
           \A z \in Zygotes : Pending(z)' => Pending(z) /\ (serving = z => serving' = z),
           current \in Zygotes =>
              /\ conn'[current] \in {conn[current], "none", "refused", "reset"}
              /\ pcs'[current] \in {pcs[current], "bare", "dead"}
              /\ Pending(current)' => req'[current] = req[current],
           \A a \in Apps : /\ parent'[a] = parent[a]
                           /\ table'[a] = table[a] \/ table'[a] = <<>>
                           /\ req'[a] = req[a] \/ req'[a].act \notin ByIndex
    PROVE  InOrder'
  <1> SUFFICES ASSUME NEW z \in Zygotes, Pending(z)', z # current
               PROVE  Behind(z)' /\ Fresh'
    BY DEF InOrder
  <1>1. Pending(z) /\ (serving = z => serving' = z) /\ current \in Zygotes
    BY CurrentIs
  <1>2. Behind(z) /\ Fresh
    BY <1>1 DEF InOrder
  <1>3. Behind(z)'
    BY <1>1, <1>2 DEF Behind
  <1>4. Fresh'
    BY <1>1, <1>2 DEF Fresh
  <1> QED BY <1>3, <1>4

LEMMA OneRemovalKept ==
    ASSUME OneRemoval, \A z \in Zygotes : Pending(z)' => Pending(z) /\ req'[z] = req[z]
    PROVE  OneRemoval'
  BY DEF OneRemoval, Removing

(* Requests that were under way, of lists that are the same.               *)
LEMMA NamedKept ==
    ASSUME Named, SameDaemonVars, current' = current,
           \A z \in Zygotes : readFrom'[z] = readFrom[z],
           \A a \in Apps : parent'[a] = parent[a],
           \A c \in Zygotes \cup Apps : Pending(c)' => Pending(c) /\ req'[c] = req[c]
    PROVE  Named'
  <1>1. up' = up /\ started' = started /\ list' = list
    BY DEF SameDaemonVars
  <1>2. ASSUME NEW z \in Zygotes, Removing(z)', SameDaemon(z)'
        PROVE  SameModule(z, req[z].of)'
    <2>1. Removing(z) /\ SameDaemon(z) /\ req'[z] = req[z]
      BY <1>1, <1>2 DEF Removing, SameDaemon
    <2>2. SameModule(z, req[z].of)
      BY <2>1 DEF Named
    <2> QED BY <1>1, <2>1, <2>2 DEF SameModule, Indexed, Entry
  <1>3. ASSUME NEW a \in Apps, Pending(a)', req'[a].act \in ByIndex, parent'[a] = current',
               current' \in Zygotes, SameDaemon(current)'
        PROVE  SameModule(a, req[a].of)'
    <2>1. /\ Pending(a) /\ req[a].act \in ByIndex /\ parent[a] = current
          /\ current \in Zygotes /\ SameDaemon(current) /\ req'[a] = req[a]
      BY <1>1, <1>3 DEF SameDaemon
    <2>2. SameModule(a, req[a].of)
      BY <2>1 DEF Named
    <2> QED BY <1>1, <2>1, <2>2 DEF SameModule, Indexed, Entry
  <1> QED BY <1>2, <1>3 DEF Named

(* A daemon's step on the connection of c, which is not pending afterwards. *)
LEMMA ServedKeeps ==
    ASSUME IInv, TypeOK', NEW c \in Clients, Served(c)
    PROVE  IInv'
  <1>1. /\ Queue /\ Requests /\ Lineage /\ Loading /\ InOrder /\ OneRemoval /\ InStep /\ Named
        /\ Typing /\ Typing'
    BY TypingFact, TypingNext DEF IInv
  <1>2. /\ up /\ serving = c /\ serving' = Nobody /\ OnlyConn(c) /\ conn[c] = "open"
        /\ conn'[c] \notin {"queued", "open"} /\ backlog' = backlog /\ SameDaemonVars
        /\ up' = up /\ started' = started /\ list' = list
        /\ pcs' = pcs /\ current' = current /\ parent' = parent /\ SameLoading
    <2>1. conn[c] = "open"
      BY <1>1 DEF Served, Queue
    <2> QED
      BY <2>1 DEF Served, Cleared, SameDaemonVars, SameLoading, loadVars, progVars
  <1>3. \A d \in Clients \ {c} : /\ conn'[d] = conn[d] /\ req'[d] = req[d]
                                 /\ wrote'[d] = wrote[d] /\ answer'[d] = answer[d]
    BY <1>2 DEF OnlyConn
  <1>4. Queue'
    BY <1>1, <1>2, <1>3, QueueLeave
  <1>5. \/ /\ c = Tracer \/ pcs[c] \in {"bare", "dead"}
           /\ conn'[c] = "none" /\ req'[c] = NoRequest /\ wrote'[c] = 0
        \/ /\ req'[c] = req[c] /\ wrote'[c] = wrote[c]
           /\ \/ conn'[c] = "handed" /\ req[c].act = "RequestCompanionSocket"
              \/ /\ pcs[c] \notin {"bare", "dead"} /\ conn'[c] = "reset"
                 /\ req[c].act = "GetModuleDir"
              \/ /\ pcs[c] \notin {"bare", "dead"} /\ conn'[c] = "answered"
                 /\ req[c].act = "ReadModules" =>
                       answer'[c].modules = list /\ answer'[c].from = started
                 /\ req[c].act = "RemoveModule" => ~Indexed(c)
    BY DEF Served, Cleared
  <1>6. Requests'
    BY <1>1, <1>2, <1>3, <1>5, IsClient DEF Requests, NoRequest
  <1>7. Lineage'
    <2>1. ASSUME NEW z \in Zygotes, pcs[z] \in {"ready", "bare", "dead"}
          PROVE  conn'[z] = "none" \/ (conn'[z] = conn[z] /\ req'[z] = req[z])
      <3>1. CASE z = c
        BY <1>1, <1>2, <1>5, <2>1, <3>1 DEF Requests
      <3>2. CASE z # c
        BY <1>3, <3>2, IsClient
      <3> QED BY <3>1, <3>2
    <2> QED BY <1>1, <1>2, <2>1, LineageKept
  <1>8. Loading'
    <2>1. \A z \in Zygotes : LoopVars(z)'
      BY <1>1, <1>2 DEF Loading, LoopVars, SameLoading
    <2>2. ASSUME NEW z \in Zygotes, pcs'[z] = "read", conn'[z] = "answered"
          PROVE  answer'[z].from <= started'
      <3>1. CASE z = c
        <4>1. req[z].act = "ReadModules"
          BY <1>1, <1>2, <2>2, <3>1 DEF Requests
        <4> QED BY <1>1, <1>2, <1>5, <2>2, <3>1, <4>1 DEF Typing
      <3>2. CASE z # c
        BY <1>1, <1>2, <1>3, <2>2, <3>2, IsClient DEF Loading
      <3> QED BY <3>1, <3>2
    <2>3. \A a \in Apps : pcs'[a] = "unborn" => table'[a] = <<>>
      BY <1>1, <1>2 DEF Loading, SameLoading
    <2> QED BY <2>1, <2>2, <2>3 DEF Loading
  <1>9. ASSUME NEW z \in Zygotes, Pending(z)'
        PROVE  z # c /\ Pending(z) /\ req'[z] = req[z]
    BY <1>2, <1>3, <1>9, IsClient
  <1>10. InOrder'
    <2>1. CASE \E z \in Zygotes : Pending(z)' /\ z # current
      <3>1. current # c
        BY <1>1, <1>2, <1>9, <2>1 DEF InOrder, Behind
      <3>2. current \in Zygotes => conn'[current] = conn[current] /\ req'[current] = req[current]
        BY <1>3, <3>1, IsClient
      <3>3. \A a \in Apps : req'[a] = req[a] \/ req'[a].act \notin ByIndex
        BY <1>3, <1>5, IsClient DEF NoRequest, ByIndex
      <3> QED BY <1>1, <1>2, <1>9, <3>2, <3>3, InOrderKept DEF SameLoading
    <2>2. CASE ~\E z \in Zygotes : Pending(z)' /\ z # current
      BY <1>2, <2>2 DEF InOrder
    <2> QED BY <2>1, <2>2
  <1>11. OneRemoval'
    BY <1>1, <1>9, OneRemovalKept
  <1>12. InStep'
    <2>1. SameLists
      BY <1>2 DEF SameLists, SameLoading
    <2>2. CASE current # c
      BY <1>1, <1>3, <2>1, <2>2, IsClient, InStepSame
    <2>3. CASE current = c /\ current \in Zygotes
      <3>1. (/\ HasRead(current) /\ HasLoaded(current) /\ HasRemoved(current)
             /\ IsReady(current) /\ HasForked(current))
        BY <1>1, <2>3 DEF InStep
      <3>2. \/ pcs[c] \in {"bare", "dead"}
            \/ /\ pcs[c] # "dead" /\ conn'[c] = "answered"
               /\ \/ /\ pcs[c] = "read"
                     /\ answer'[c].modules = list /\ answer'[c].from = started
                  \/ pcs[c] = "remove" /\ ~Indexed(c)
        BY <1>1, <1>2, <1>5, <2>3, IsClient DEF Requests
      <3>3. CASE pcs[c] = "remove" /\ ~Indexed(c)
        <4>1. ~SameDaemon(c)
          <5> SUFFICES ASSUME SameDaemon(c) PROVE FALSE
            OBVIOUS
          <5>1. Joins(list, table[c], found[c], position[c]) /\ req[c].index = Len(table[c])
            BY <1>2, <2>3, <3>1, <3>3 DEF HasLoaded, HasRemoved
          <5>2. position[c] <= Len(found[c]) /\ position[c] \in Nat
                /\ table[c] \in Seq(Modules) /\ found[c] \in Seq(Modules)
            BY <1>1, <2>3, <3>3 DEF Loading, LoopVars, Typing
          <5> QED BY <3>3, <5>1, <5>2 DEF Joins, Indexed
        <4>2. (/\ HasRead(current) /\ HasLoaded(current) /\ HasRemoved(current)
               /\ IsReady(current))'
          BY <1>2, <2>3, <3>3, <4>1
             DEF HasRead, HasLoaded, HasRemoved, IsReady, SameDaemon, SameLoading
        <4>3. HasForked(current)'
          BY <1>2, <2>3, <4>1 DEF HasForked, SameDaemon, SameLoading
        <4> QED BY <4>2, <4>3 DEF InStep
      <3>4. CASE \/ pcs[c] \in {"bare", "dead"}
                 \/ /\ pcs[c] = "read" /\ conn'[c] = "answered"
                    /\ answer'[c].modules = list
        <4>1. (/\ HasRead(current) /\ HasLoaded(current) /\ HasRemoved(current)
               /\ IsReady(current))'
          BY <1>2, <2>3, <3>4 DEF HasRead, HasLoaded, HasRemoved, IsReady
        <4>2. HasForked(current)'
          BY <1>2, <3>1 DEF HasForked, SameDaemon, SameLoading, Same
        <4> QED BY <4>1, <4>2 DEF InStep
      <3> QED BY <3>2, <3>3, <3>4
    <2>4. CASE current \notin Zygotes
      BY <1>2, <2>4 DEF InStep
    <2> QED BY <2>2, <2>3, <2>4
  <1>13. Named'
    <2>1. \A d \in Zygotes \cup Apps : Pending(d)' => Pending(d) /\ req'[d] = req[d]
      BY <1>2, <1>3, IsClient
    <2> QED BY <1>1, <1>2, <2>1, NamedKept DEF SameLoading
  <1> QED BY <1>4, <1>6, <1>7, <1>8, <1>10, <1>11, <1>12, <1>13 DEF IInv

-----------------------------------------------------------------------------
(* What is left after the removal of the first module still to load.       *)
LEMMA JoinsWithout ==
    ASSUME NEW s \in Seq(Modules), NEW t \in Seq(Modules), NEW u \in Seq(Modules),
           NEW i \in 1 .. Len(u), Joins(s, t, u, i)
    PROVE  Joins(Without(s, Len(t) + 1), t, u, i + 1)
  <1> DEFINE w == Without(s, Len(t) + 1)
  <1>1. /\ Len(s) = Len(t) + (Len(u) + 1 - i)
        /\ \A k \in 1 .. Len(t) : s[k] = t[k]
        /\ \A k \in i .. Len(u) : s[Len(t) + (k + 1 - i)] = u[k]
    BY DEF Joins
  <1>2. Len(t) \in Nat /\ Len(u) \in Nat /\ i \in Nat /\ i <= Len(u)
    OBVIOUS
  <1>3. Len(t) + 1 \in 1 .. Len(s)
    BY <1>1, <1>2
  <1>4. /\ Len(w) = Len(s) - 1
        /\ \A k \in 1 .. Len(t) : w[k] = s[k]
        /\ \A k \in Len(t) + 1 .. Len(s) - 1 : w[k] = s[k + 1]
    BY <1>2, <1>3, WithoutFact
  <1> HIDE DEF w
  <1>5. ASSUME NEW k \in i + 1 .. Len(u)
        PROVE  w[Len(t) + (k + 1 - (i + 1))] = u[k]
    <2>1. Len(t) + (k - i) \in Len(t) + 1 .. Len(s) - 1
      BY <1>1, <1>2
    <2>2. w[Len(t) + (k - i)] = s[Len(t) + (k - i) + 1]
      BY <1>4, <2>1
    <2>3. s[Len(t) + (k + 1 - i)] = u[k]
      BY <1>1, <1>2
    <2>4. Len(t) + (k - i) + 1 = Len(t) + (k + 1 - i)
          /\ Len(t) + (k - i) = Len(t) + (k + 1 - (i + 1))
      BY <1>2
    <2> QED BY <2>2, <2>3, <2>4
  <1>6. Len(w) = Len(t) + (Len(u) + 1 - (i + 1))
    BY <1>1, <1>2, <1>4
  <1>7. \A k \in 1 .. Len(t) : w[k] = t[k]
    BY <1>1, <1>4
  <1>8. Joins(w, t, u, i + 1)
    BY <1>5, <1>6, <1>7 DEF Joins
  <1> QED BY <1>8 DEF w

(* A removal is one of the running zygote, or nobody there can tell.       *)
LEMMA RemovesKeeps ==
    ASSUME IInv, TypeOK', NEW c \in Clients, Removes(c)
    PROVE  IInv'
  <1>1. /\ Queue /\ Requests /\ Lineage /\ Loading /\ InOrder /\ OneRemoval /\ InStep /\ Named
        /\ Typing /\ Typing'
    BY TypingFact, TypingNext DEF IInv
  <1>2. /\ up /\ serving = c /\ serving' = Nobody /\ OnlyConn(c) /\ conn[c] = "open"
        /\ conn'[c] \notin {"queued", "open"} /\ backlog' = backlog
        /\ up' = up /\ started' = started /\ list' = Without(list, req[c].index + 1)
        /\ pcs' = pcs /\ current' = current /\ parent' = parent /\ SameLoading
        /\ req[c].act = "RemoveModule" /\ Indexed(c)
    <2>1. conn[c] = "open"
      BY <1>1 DEF Removes, Queue
    <2> QED BY <2>1 DEF Removes, Cleared, SameLoading, loadVars, progVars
  <1>3. \A d \in Clients \ {c} : /\ conn'[d] = conn[d] /\ req'[d] = req[d]
                                 /\ wrote'[d] = wrote[d] /\ answer'[d] = answer[d]
    BY <1>2 DEF OnlyConn
  <1>4. /\ c \in Zygotes /\ (\A a \in Apps : a # c) /\ c # Tracer
        /\ pcs[c] \in {"remove", "dead"} /\ current \in Zygotes
    <2>1. c \in Zygotes /\ (\A a \in Apps : a # c) /\ c # Tracer
      BY <1>1, <1>2, IsClient DEF Requests, Clients
    <2>2. pcs[c] \in {"remove", "dead"}
      BY <1>1, <1>2, <2>1 DEF Requests
    <2> QED BY <1>1, <1>2, <2>1, <2>2, CurrentIs
  <1>5. \/ /\ pcs[c] = "dead"
           /\ conn'[c] = "none" /\ req'[c] = NoRequest /\ wrote'[c] = 0
        \/ /\ pcs[c] = "remove" /\ conn'[c] = "answered" /\ answer'[c].said = "yes"
           /\ req'[c] = req[c] /\ wrote'[c] = wrote[c]
    BY <1>4 DEF Removes, Cleared
  <1>6. Queue'
    BY <1>1, <1>2, <1>3, QueueLeave
  <1>7. Requests'
    BY <1>1, <1>2, <1>3, <1>5, IsClient DEF Requests, NoRequest
  <1>8. Lineage'
    BY <1>1, <1>2, <1>3, IsClient DEF Lineage
  <1>9. Loading'
    <2>1. \A z \in Zygotes : LoopVars(z)'
      BY <1>1, <1>2 DEF Loading, LoopVars, SameLoading
    <2>2. ASSUME NEW z \in Zygotes, pcs'[z] = "read", conn'[z] = "answered"
          PROVE  answer'[z].from <= started'
      <3>1. z # c
        BY <1>2, <1>4, <2>2
      <3> QED BY <1>1, <1>2, <1>3, <2>2, <3>1, IsClient DEF Loading
    <2>3. \A a \in Apps : pcs'[a] = "unborn" => table'[a] = <<>>
      BY <1>1, <1>2 DEF Loading, SameLoading
    <2> QED BY <2>1, <2>2, <2>3 DEF Loading
  <1>10. ASSUME NEW z \in Zygotes, Pending(z)'
         PROVE  z # c /\ Pending(z) /\ req'[z] = req[z]
    BY <1>2, <1>3, <1>10, IsClient
  <1>11. InOrder'
    <2>1. CASE \E z \in Zygotes : Pending(z)' /\ z # current
      <3>1. current # c
        BY <1>1, <1>2, <1>10, <2>1 DEF InOrder, Behind
      <3>2. current \in Zygotes => conn'[current] = conn[current] /\ req'[current] = req[current]
        BY <1>3, <3>1, IsClient
      <3>3. \A a \in Apps : req'[a] = req[a]
        BY <1>3, <1>4, IsClient
      <3> QED BY <1>1, <1>2, <1>10, <3>2, <3>3, InOrderKept DEF SameLoading
    <2>2. CASE ~\E z \in Zygotes : Pending(z)' /\ z # current
      BY <1>2, <2>2 DEF InOrder
    <2> QED BY <2>1, <2>2
  <1>12. OneRemoval'
    BY <1>1, <1>10, OneRemovalKept
  <1>13. c = current => \A a \in Apps : parent[a] # current
    BY <1>1, <1>2, <1>4 DEF Lineage
  <1>14. c # current => Behind(c) /\ Fresh
    BY <1>1, <1>2, <1>4 DEF InOrder
  <1>15. InStep'
    <2>1. CASE c # current
      <3>1. /\ conn'[current] # "answered" /\ pcs'[current] \in {"restart", "read", "bare", "dead"}
            /\ \A a \in Apps : parent'[a] = current => table'[a] = <<>>
        BY <1>2, <1>3, <1>4, <1>14, <2>1, IsClient DEF Behind, Fresh, SameLoading
      <3>2. (/\ HasRead(current) /\ HasLoaded(current) /\ HasRemoved(current)
             /\ IsReady(current) /\ HasForked(current))'
        BY <1>2, <3>1 DEF HasRead, HasLoaded, HasRemoved, IsReady, HasForked
      <3> QED BY <3>2 DEF InStep
    <2>2. CASE c = current
      <3>1. HasForked(current)'
        BY <1>2, <1>13, <2>2 DEF HasForked
      <3>2. HasRead(current)' /\ IsReady(current)'
        BY <1>2, <1>4, <2>2 DEF HasRead, IsReady
      <3>3. CASE pcs[c] = "dead" \/ ~SameDaemon(c)
        <4>1. HasLoaded(current)' /\ HasRemoved(current)'
          BY <1>2, <2>2, <3>3 DEF HasLoaded, HasRemoved, SameDaemon, SameLoading
        <4> QED BY <3>1, <3>2, <4>1 DEF InStep
      <3>4. CASE pcs[c] = "remove" /\ SameDaemon(c)
        <4>1. /\ conn'[c] = "answered" /\ answer'[c].said = "yes" /\ req'[c] = req[c]
          BY <1>5, <3>4
        <4>2. /\ Len(table[c]) + removed[c] = position[c] - 1
              /\ Joins(list, table[c], found[c], position[c])
              /\ req[c].index = Len(table[c]) /\ req[c].of = found[c][position[c]]
          BY <1>1, <1>2, <1>4, <2>2, <3>4 DEF InStep, HasLoaded, HasRemoved
        <4>3. /\ position[c] \in 1 .. Len(found[c]) /\ list \in Seq(Modules)
              /\ table[c] \in Seq(Modules) /\ found[c] \in Seq(Modules)
          BY <1>1, <1>4, <3>4 DEF Loading, LoopVars, Typing
        <4>4. Joins(list', table[c], found[c], position[c] + 1)
          BY <1>2, <4>2, <4>3, JoinsWithout
        <4>5. /\ table' = table /\ found' = found /\ position' = position
              /\ removed' = removed /\ pcs' = pcs /\ current' = c
          BY <1>2, <2>2 DEF SameLoading
        <4>6. HasLoaded(current)'
          BY <2>2, <3>4, <4>1, <4>2, <4>5 DEF HasLoaded
        <4>7. HasRemoved(current)'
          BY <2>2, <4>1, <4>2, <4>4, <4>5 DEF HasRemoved, Joins
        <4> QED BY <3>1, <3>2, <4>6, <4>7 DEF InStep
      <3> QED BY <1>4, <3>3, <3>4
    <2> QED BY <2>1, <2>2
  <1>16. Named'
    <2>1. ASSUME NEW z \in Zygotes, Removing(z)' PROVE FALSE
      <3>1. z # c /\ Removing(z)
        BY <1>10, <2>1 DEF Removing
      <3> QED BY <1>1, <1>2, <1>4, <3>1 DEF OneRemoval, Removing
    <2>2. ASSUME NEW a \in Apps, Pending(a)', req'[a].act \in ByIndex, parent'[a] = current'
          PROVE  FALSE
      <3>1. req[a].act \in ByIndex /\ parent[a] = current
        BY <1>2, <1>3, <1>4, <2>2, IsClient
      <3> QED BY <1>13, <1>14, <3>1 DEF Fresh
    <2> QED BY <2>1, <2>2 DEF Named
  <1> QED BY <1>6, <1>7, <1>8, <1>9, <1>11, <1>12, <1>15, <1>16 DEF IInv

-----------------------------------------------------------------------------
(* Steps of the daemon that serve nobody.                                  *)
LEMMA Unmoved ==
    ASSUME IInv, TypeOK', Requests', conn' = conn, req' = req, answer' = answer,
           serving' = serving, backlog' = backlog, SameDaemonVars, SameLoading,
           pcs' = pcs, current' = current, parent' = parent
    PROVE  IInv'
  <1>1. /\ Queue /\ Requests /\ Lineage /\ Loading /\ InOrder /\ OneRemoval /\ InStep /\ Named
        /\ up' = up /\ started' = started /\ list' = list
    BY DEF IInv, SameDaemonVars
  <1>2. Queue'
    BY <1>1, QueueSame
  <1>3. Lineage'
    BY <1>1 DEF Lineage
  <1>4. Loading'
    BY <1>1 DEF Loading, LoopVars, SameLoading
  <1>5. InOrder'
    BY <1>1, InOrderKept DEF SameLoading
  <1>6. OneRemoval'
    BY <1>1, OneRemovalKept
  <1>7. InStep'
    BY <1>1, InStepSame DEF SameLists, SameLoading
  <1>8. Named'
    BY <1>1, NamedKept DEF SameLoading
  <1> QED BY <1>2, <1>3, <1>4, <1>5, <1>6, <1>7, <1>8 DEF IInv

LEMMA QuietKeeps ==
    ASSUME IInv, TypeOK', UNCHANGED <<connVars, loadVars, progVars>>, SameDaemonVars
    PROVE  IInv'
  <1>1. /\ conn' = conn /\ req' = req /\ wrote' = wrote /\ answer' = answer
        /\ serving' = serving /\ backlog' = backlog
        /\ SameLoading /\ pcs' = pcs /\ current' = current /\ parent' = parent
    BY DEF connVars, loadVars, progVars, SameLoading
  <1>2. Requests'
    BY <1>1 DEF IInv, Requests
  <1> QED BY <1>1, <1>2, Unmoved

LEMMA WriteKeeps ==
    ASSUME IInv, NEW c \in Zygotes \cup Apps, Write(c)
    PROVE  TypeOK' /\ IInv'
  <1>1. TypeOK /\ Requests /\ c \in Clients
    BY IsClient DEF IInv
  <1>2. /\ TypeOK' /\ ~Complete(c)
        /\ wrote'[c] = wrote[c] + 1 /\ \A d \in Clients \ {c} : wrote'[d] = wrote[d]
        /\ serving' = serving /\ backlog' = backlog /\ conn' = conn /\ req' = req
        /\ answer' = answer
        /\ UNCHANGED daemonVars /\ UNCHANGED loadVars /\ UNCHANGED progVars
    BY <1>1, WriteDoes
  <1>3. SameDaemonVars /\ SameLoading /\ pcs' = pcs /\ current' = current /\ parent' = parent
    BY <1>2 DEF daemonVars, loadVars, progVars, SameDaemonVars, SameLoading
  <1>4. Requests'
    <2>1. conn[c] \in {"queued", "open"}
      BY DEF Write
    <2>2. wrote[c] \in 0 .. 2
      BY <1>1 DEF TypeOK
    <2>3. wrote'[c] = 2 => req[c].act \in WithArguments
      BY <1>2, <2>2 DEF Complete
    <2> QED BY <1>1, <1>2, <1>3, <2>1, <2>3, IsClient DEF Requests
  <1> QED BY <1>2, <1>3, <1>4, Unmoved

LEMMA AcceptKeeps ==
    ASSUME IInv, TypeOK', Accept
    PROVE  IInv'
  <1>1. /\ Queue /\ Requests /\ Lineage /\ Loading /\ InOrder /\ OneRemoval /\ InStep /\ Named
        /\ Typing /\ Typing'
    BY TypingFact, TypingNext DEF IInv
  <1> DEFINE h == Head(backlog)
  <1>2. /\ up /\ serving = Nobody /\ backlog # <<>> /\ serving' = h /\ backlog' = Tail(backlog)
        /\ conn' = [conn EXCEPT ![h] = "open"]
        /\ req' = req /\ wrote' = wrote /\ answer' = answer /\ SameDaemonVars
        /\ up' = up /\ started' = started /\ list' = list
        /\ pcs' = pcs /\ current' = current /\ parent' = parent /\ SameLoading
    BY DEF Accept, SameDaemonVars, SameLoading, daemonVars, loadVars, progVars
  <1>3. conn \in [Clients ->
            {"none", "queued", "open", "handed", "answered", "refused", "reset"}]
    BY DEF IInv, TypeOK
  <1>4. h \in Clients
    <2>1. backlog \in Seq(Clients)
      BY <1>1 DEF Typing
    <2> QED BY ONLY <1>2, <2>1, HeadTailProperties
  <1>5. conn'[h] = "open" /\ \A d \in Clients \ {h} : conn'[d] = conn[d]
    BY <1>2, <1>3, <1>4
  <1>6. /\ Queue' /\ conn[h] = "queued"
        /\ Len(backlog') = Len(backlog) - 1 /\ h = backlog[1]
        /\ \A i \in 1 .. Len(backlog') : backlog'[i] = backlog[i + 1]
    BY <1>1, <1>2, <1>5, QueueAccept
  <1> HIDE DEF h
  <1>7. Requests'
    BY <1>1, <1>2, <1>5, <1>6, IsClient DEF Requests
  <1>8. Lineage'
    BY <1>1, <1>2, <1>4, <1>5, <1>6, IsClient DEF Lineage
  <1>9. Loading'
    <2>1. \A z \in Zygotes : LoopVars(z)'
      BY <1>1, <1>2 DEF Loading, LoopVars, SameLoading
    <2> QED BY <1>1, <1>2, <1>5, <2>1, IsClient DEF Loading, SameLoading
  <1>10. \A d \in Clients : Pending(d)' => Pending(d)
    BY <1>5, <1>6
  <1>11. InOrder'
    <2> SUFFICES ASSUME NEW z \in Zygotes, Pending(z)', z # current
                 PROVE  Behind(z)' /\ Fresh'
      BY <1>2 DEF InOrder
    <2>1. Behind(z) /\ Fresh /\ current \in Zygotes /\ current \in Clients /\ z # Nobody
      BY <1>1, <1>10, CurrentIs, IsClient DEF InOrder
    <2>2. Len(backlog) \in Nat /\ 1 \in 1 .. Len(backlog)
      <3>1. backlog \in Seq(Clients)
        BY <1>1 DEF Typing
      <3> QED BY <1>2, <3>1
    <2>3. h # current
      BY <1>2, <1>6, <2>1, <2>2 DEF Behind
    <2>4. conn'[current] = conn[current]
      BY <1>5, <2>1, <2>3
    <2>5. ASSUME NEW i \in 1 .. Len(backlog'), backlog'[i] = current
          PROVE  serving' = z \/ \E j \in 1 .. i - 1 : backlog'[j] = z
      <3>1. i + 1 \in 1 .. Len(backlog) /\ backlog[i + 1] = current
        BY <1>6, <2>2, <2>5
      <3>2. PICK j \in 1 .. i : backlog[j] = z
        BY <1>2, <2>1, <3>1 DEF Behind
      <3>3. CASE j = 1
        BY <1>2, <1>6, <3>2, <3>3
      <3>4. CASE j # 1
        <4>1. j - 1 \in 1 .. i - 1 /\ backlog'[j - 1] = z
          BY <1>6, <2>2, <3>2, <3>4
        <4> QED BY <4>1
      <3> QED BY <3>3, <3>4
    <2>6. Behind(z)'
      BY <1>2, <2>1, <2>4, <2>5 DEF Behind
    <2>7. Fresh'
      BY <1>2, <2>1, <2>4 DEF Fresh, SameLoading
    <2> QED BY <2>6, <2>7
  <1>12. OneRemoval'
    BY <1>1, <1>2, <1>10, IsClient, OneRemovalKept
  <1>13. InStep'
    <2>1. SameLists
      BY <1>2 DEF SameLists, SameLoading
    <2>2. CASE current # h
      BY <1>1, <1>2, <1>5, <2>1, <2>2, IsClient, InStepSame
    <2>3. CASE current = h /\ current \in Zygotes
      <3>1. /\ HasRead(current) /\ HasLoaded(current) /\ HasRemoved(current)
            /\ IsReady(current) /\ HasForked(current)
        BY <1>1, <2>3 DEF InStep
      <3>2. HasRead(current)' /\ IsReady(current)'
        BY <1>2, <1>5, <2>3, <3>1 DEF HasRead, IsReady, SameDaemon, SameLoading, Same
      <3>3. HasLoaded(current)'
        BY <1>2, <1>5, <1>6, <2>3, <3>1 DEF HasLoaded, SameDaemon, SameLoading, Joins
      <3>4. HasRemoved(current)'
        BY <1>2, <1>5, <1>6, <2>3, <3>1 DEF HasRemoved, SameDaemon, SameLoading
      <3>5. HasForked(current)'
        BY <1>2, <2>3, <3>1 DEF HasForked, SameDaemon, SameLoading, Same
      <3> QED BY <3>2, <3>3, <3>4, <3>5 DEF InStep
    <2>4. CASE current \notin Zygotes
      BY <1>2, <2>4 DEF InStep
    <2> QED BY <2>2, <2>3, <2>4
  <1>14. Named'
    BY <1>1, <1>2, <1>10, IsClient, NamedKept DEF SameLoading
  <1> QED BY <1>6, <1>7, <1>8, <1>9, <1>11, <1>12, <1>13, <1>14 DEF IInv

LEMMA ExitKeeps ==
    ASSUME IInv, TypeOK', Exit
    PROVE  IInv'
  <1>1. /\ Queue /\ Requests /\ Lineage /\ Loading /\ InOrder /\ OneRemoval /\ InStep /\ Named
    BY DEF IInv
  <1>2. /\ up' = FALSE /\ serving' = Nobody /\ backlog' = <<>> /\ answer' = answer
        /\ started' = started
        /\ pcs' = pcs /\ current' = current /\ parent' = parent /\ SameLoading
    BY DEF Exit, SameLoading, loadVars, progVars
  <1>3. \A c \in Clients :
            \/ /\ conn[c] \notin {"queued", "open"}
               /\ conn'[c] = conn[c] /\ req'[c] = req[c] /\ wrote'[c] = wrote[c]
            \/ /\ conn[c] \in {"queued", "open"} /\ (c = Tracer \/ pcs[c] \in {"bare", "dead"})
               /\ conn'[c] = "none" /\ req'[c] = NoRequest /\ wrote'[c] = 0
            \/ /\ conn[c] \in {"queued", "open"} /\ c # Tracer /\ pcs[c] \notin {"bare", "dead"}
               /\ conn'[c] = "reset" /\ req'[c] = req[c] /\ wrote'[c] = wrote[c]
    BY DEF Exit, Left
  <1>4. \A c \in Clients : ~Pending(c)'
    BY <1>3
  <1>5. Queue'
    BY <1>2, <1>4, IsClient DEF Queue
  <1>6. Requests'
    BY <1>1, <1>2, <1>3, IsClient DEF Requests, NoRequest
  <1>7. Lineage'
    <2>1. ASSUME NEW z \in Zygotes, pcs[z] \in {"ready", "bare", "dead"}
          PROVE  conn'[z] = "none" \/ (conn'[z] = conn[z] /\ req'[z] = req[z])
      BY <1>1, <1>3, <2>1, IsClient DEF Requests
    <2> QED BY <1>1, <1>2, <2>1, LineageKept
  <1>8. Loading'
    <2>1. \A z \in Zygotes : LoopVars(z)'
      BY <1>1, <1>2 DEF Loading, LoopVars, SameLoading
    <2> QED BY <1>1, <1>2, <1>3, <2>1, IsClient DEF Loading, SameLoading
  <1>9. InOrder' /\ OneRemoval' /\ Named'
    BY <1>4, IsClient DEF InOrder, OneRemoval, Removing, Named
  <1>10. InStep'
    BY <1>2 DEF InStep, HasRead, HasLoaded, HasRemoved, IsReady, HasForked, SameDaemon
  <1> QED BY <1>5, <1>6, <1>7, <1>8, <1>9, <1>10 DEF IInv

LEMMA RespawnKeeps ==
    ASSUME IInv, TypeOK', Respawn
    PROVE  IInv'
  <1>1. /\ Queue /\ Requests /\ Lineage /\ Loading /\ InOrder /\ OneRemoval /\ InStep /\ Named
        /\ Typing /\ Typing'
    BY TypingFact, TypingNext DEF IInv
  <1>2. /\ ~up /\ started' = started + 1
        /\ conn' = conn /\ req' = req /\ wrote' = wrote /\ answer' = answer
        /\ serving' = serving /\ backlog' = backlog
        /\ pcs' = pcs /\ current' = current /\ parent' = parent /\ SameLoading
    BY DEF Respawn, SameLoading, connVars, loadVars, progVars
  <1>3. backlog = <<>> /\ serving = Nobody
    BY <1>1, <1>2 DEF Queue
  <1>4. \A c \in Clients : ~Pending(c)'
    BY <1>1, <1>2, <1>3, IsClient DEF Queue
  <1>5. Queue'
    BY <1>2, <1>3, <1>4, IsClient DEF Queue
  <1>6. Requests'
    BY <1>1, <1>2 DEF Requests
  <1>7. Lineage'
    BY <1>1, <1>2 DEF Lineage
  <1>8. started \in Nat /\ \A z \in Zygotes : readFrom[z] \in Nat /\ answer[z].from \in Nat
    BY <1>1 DEF Typing
  <1>9. \A z \in Zygotes : readFrom'[z] < started'
    BY <1>1, <1>2, <1>8 DEF Loading, LoopVars, SameLoading
  <1>10. \A z \in Zygotes : pcs'[z] = "read" /\ Answered(z)' => answer'[z].from < started'
    BY <1>1, <1>2, <1>8 DEF Loading
  <1>11. Loading'
    <2>1. \A z \in Zygotes : LoopVars(z)'
      BY <1>1, <1>2, <1>8 DEF Loading, LoopVars, SameLoading
    <2> QED BY <1>1, <1>2, <1>8, <2>1 DEF Loading, SameLoading
  <1>12. InOrder' /\ OneRemoval' /\ Named'
    BY <1>4, IsClient DEF InOrder, OneRemoval, Removing, Named
  <1>13. ASSUME current' \in Zygotes
         PROVE  /\ ~SameDaemon(current)'
                /\ pcs'[current'] = "read" /\ Answered(current)'
                      => answer'[current'].from # started'
    BY <1>2, <1>8, <1>9, <1>10, <1>13 DEF SameDaemon
  <1>14. InStep'
    BY <1>13 DEF InStep, HasRead, HasLoaded, HasRemoved, IsReady, HasForked
  <1> QED BY <1>5, <1>6, <1>7, <1>11, <1>12, <1>14 DEF IInv

-----------------------------------------------------------------------------
(* Steps of an app but for its requests.                                   *)
LEMMA AppMoves ==
    ASSUME IInv, TypeOK', NEW a \in Apps, pcs[a] # "unborn", pcs'[a] # "unborn",
           OnlyProgram(a), current' = current, parent' = parent, SameDaemonVars,
           OnlyLoading(a), table'[a] = table[a] \/ table'[a] = <<>>,
           serving' = serving, backlog' = backlog, OnlyConn(a),
           \/ conn'[a] = conn[a] /\ req'[a] = req[a] /\ wrote'[a] = wrote[a]
           \/ /\ conn[a] \notin {"queued", "open"}
              /\ \/ Cleared(a)
                 \/ /\ conn'[a] \in {"answered", "reset"}
                    /\ req'[a] = req[a] /\ wrote'[a] = wrote[a] /\ conn[a] # "none"
    PROVE  IInv'
  <1>1. /\ Queue /\ Requests /\ Lineage /\ Loading /\ InOrder /\ OneRemoval /\ InStep /\ Named
        /\ Typing /\ Typing'
    BY TypingFact, TypingNext DEF IInv
  <1>2. /\ a \in Clients /\ a \notin Zygotes /\ a # Tracer /\ a # current
        /\ up' = up /\ started' = started /\ list' = list
    BY <1>1, IsClient DEF SameDaemonVars, Typing
  <1>3. \A d \in Clients \ {a} : /\ conn'[d] = conn[d] /\ req'[d] = req[d]
                                 /\ wrote'[d] = wrote[d] /\ answer'[d] = answer[d]
                                 /\ pcs'[d] = pcs[d]
    BY DEF OnlyConn, OnlyProgram
  <1>4. \A z \in Zygotes : /\ found'[z] = found[z] /\ readFrom'[z] = readFrom[z]
                           /\ removed'[z] = removed[z] /\ position'[z] = position[z]
                           /\ table'[z] = table[z]
    BY <1>2 DEF OnlyLoading
  <1>5. \A b \in Apps : table'[b] = table[b] \/ table'[b] = <<>>
    BY DEF OnlyLoading
  <1>6. \/ conn'[a] = conn[a] /\ req'[a] = req[a] /\ wrote'[a] = wrote[a]
        \/ /\ conn[a] \notin {"queued", "open"} /\ conn'[a] \notin {"queued", "open"}
           /\ \/ conn'[a] = "none" /\ req'[a] = NoRequest /\ wrote'[a] = 0
              \/ conn'[a] # "none" /\ req'[a] = req[a] /\ wrote'[a] = wrote[a]
    BY DEF Cleared
  <1>7. \A z \in Zygotes : /\ conn'[z] = conn[z] /\ req'[z] = req[z] /\ answer'[z] = answer[z]
                           /\ wrote'[z] = wrote[z] /\ pcs'[z] = pcs[z]
    BY <1>2, <1>3, IsClient
  <1>8. Queue'
    <2>1. CASE conn'[a] = conn[a]
      BY <1>1, <1>2, <1>3, <2>1, QueueSame
    <2>2. CASE conn'[a] # conn[a]
      BY <1>1, <1>2, <1>3, <1>6, <2>2, QueueOther
    <2> QED BY <2>1, <2>2
  <1>9. Requests'
    BY <1>1, <1>2, <1>3, <1>6, <1>7, IsClient DEF Requests, NoRequest
  <1>10. Lineage'
    BY <1>1, <1>2, <1>3, <1>7, IsClient DEF Lineage
  <1>11. Loading'
    <2>1. \A z \in Zygotes : LoopVars(z)'
      BY <1>1, <1>2, <1>4, <1>7 DEF Loading, LoopVars
    <2>2. \A b \in Apps : pcs'[b] = "unborn" => table'[b] = <<>>
      BY <1>1, <1>3, <1>5, IsClient DEF Loading
    <2> QED BY <1>1, <1>2, <1>7, <2>1, <2>2 DEF Loading
  <1>12. \A b \in Apps : req'[b] = req[b] \/ req'[b].act \notin ByIndex
    BY <1>3, <1>6, IsClient DEF NoRequest, ByIndex
  <1>13. InOrder'
    BY <1>1, <1>5, <1>7, <1>12, InOrderKept
  <1>14. OneRemoval'
    BY <1>1, <1>7, OneRemovalKept
  <1>15. InStep'
    <2> SUFFICES ASSUME current \in Zygotes
                 PROVE  (/\ HasRead(current) /\ HasLoaded(current) /\ HasRemoved(current)
                         /\ IsReady(current) /\ HasForked(current))'
      BY DEF InStep
    <2>1. /\ HasRead(current) /\ HasLoaded(current) /\ HasRemoved(current)
          /\ IsReady(current) /\ HasForked(current)
      BY <1>1 DEF InStep
    <2>2. /\ found'[current] = found[current] /\ readFrom'[current] = readFrom[current]
          /\ removed'[current] = removed[current] /\ position'[current] = position[current]
          /\ table'[current] = table[current] /\ pcs'[current] = pcs[current]
          /\ conn'[current] = conn[current] /\ req'[current] = req[current]
          /\ answer'[current] = answer[current] /\ current' = current
      BY <1>4, <1>7
    <2>3. HasRead(current)' /\ IsReady(current)'
      BY <1>2, <2>1, <2>2 DEF HasRead, IsReady, SameDaemon, Same
    <2>4. HasLoaded(current)'
      BY <1>2, <2>1, <2>2 DEF HasLoaded, SameDaemon, Joins
    <2>5. HasRemoved(current)'
      BY <1>2, <2>1, <2>2 DEF HasRemoved, SameDaemon, Joins
    <2>6. HasForked(current)'
      BY <1>2, <1>4, <1>5, <2>1 DEF HasForked, SameDaemon, Same
    <2> QED BY <2>3, <2>4, <2>5, <2>6
  <1>16. Named'
    <2>1. \A d \in Zygotes \cup Apps : Pending(d)' => Pending(d) /\ req'[d] = req[d]
      BY <1>3, <1>6, <1>7, IsClient
    <2> QED BY <1>1, <1>4, <2>1, NamedKept
  <1> QED BY <1>8, <1>9, <1>10, <1>11, <1>13, <1>14, <1>15, <1>16 DEF IInv

LEMMA AcknowledgedKeeps ==
    ASSUME IInv, TypeOK', NEW a \in Apps, Acknowledged(a)
    PROVE  IInv'
  <1>1. /\ pcs' = pcs /\ current' = current /\ parent' = parent /\ SameLoading
        /\ SameDaemonVars
    BY DEF Acknowledged, progVars, loadVars, daemonVars, SameLoading, SameDaemonVars
  <1>2. pcs[a] # "unborn"
    BY IsClient DEF IInv, Requests, Acknowledged
  <1>3. OnlyProgram(a) /\ OnlyLoading(a) /\ table'[a] = table[a]
    BY <1>1 DEF OnlyProgram, OnlyLoading, SameLoading
  <1>4. /\ conn[a] = "handed" /\ serving' = serving /\ backlog' = backlog /\ OnlyConn(a)
        /\ \/ Cleared(a)
           \/ conn'[a] \in {"answered", "reset"} /\ req'[a] = req[a] /\ wrote'[a] = wrote[a]
    BY DEF Acknowledged
  <1> QED BY <1>1, <1>2, <1>3, <1>4, AppMoves

LEMMA AppClosesKeeps ==
    ASSUME IInv, TypeOK', NEW a \in Apps, Closes(a), pcs[a] # "unborn", pcs'[a] # "unborn"
    PROVE  IInv'
  <1>1. OnlyLoading(a) /\ table'[a] = table[a]
    BY DEF Closes, OnlyLoading, SameLoading
  <1> QED BY <1>1, AppMoves DEF Closes

LEMMA AppRanKeeps ==
    ASSUME IInv, TypeOK', NEW a \in Apps, AppRan(a)
    PROVE  IInv'
  <1>1. OnlyLoading(a) /\ table'[a] = table[a] /\ SameDaemonVars /\ OnlyConn(a)
        /\ serving' = serving /\ backlog' = backlog
        /\ conn'[a] = conn[a] /\ req'[a] = req[a] /\ wrote'[a] = wrote[a]
    BY DEF AppRan, OnlyLoading, loadVars, daemonVars, connVars, SameDaemonVars, OnlyConn
  <1> QED BY <1>1, AppMoves DEF AppRan

-----------------------------------------------------------------------------
(* A request of an app, or of the tracer.                                  *)
LEMMA AppConnects ==
    ASSUME IInv, TypeOK', NEW a \in Apps, NEW act, NEW i, NEW m, Connect(a, act, i, m),
           act \in {"GetProcessFlags", "UpdateMountNamespace"} \cup ByIndex,
           pcs[a] # "unborn", pcs'[a] # "unborn", OnlyProgram(a),
           current' = current, parent' = parent, SameDaemonVars, SameLoading,
           act \in ByIndex => i + 1 \in 1 .. Len(table[a]) /\ m = table[a][i + 1] /\ i \in Nat
    PROVE  IInv'
  <1>1. /\ Queue /\ Requests /\ Lineage /\ Loading /\ InOrder /\ OneRemoval /\ InStep /\ Named
        /\ Typing /\ Typing' /\ ConnTyped
    BY TypingFact, TypingNext, TypeParts DEF IInv
  <1>2. /\ a \in Clients /\ a \notin Zygotes /\ a # Tracer /\ a # current
        /\ up' = up /\ started' = started /\ list' = list
    BY <1>1, IsClient DEF SameDaemonVars, Typing
  <1>3. /\ OnlyConn(a) /\ conn[a] = "none"
        /\ \/ up /\ conn'[a] = "queued" /\ backlog' = Append(backlog, a)
           \/ ~up /\ conn'[a] = "refused" /\ backlog' = backlog
        /\ req'[a] = [act |-> act, index |-> i, of |-> m]
        /\ wrote'[a] = wrote[a] /\ answer'[a] = answer[a] /\ serving' = serving
    BY <1>1, <1>2, ConnectFacts
  <1>4. \A d \in Clients \ {a} : /\ conn'[d] = conn[d] /\ req'[d] = req[d]
                                 /\ wrote'[d] = wrote[d] /\ answer'[d] = answer[d]
                                 /\ pcs'[d] = pcs[d]
    BY <1>3 DEF OnlyConn, OnlyProgram
  <1>5. \A z \in Zygotes : /\ conn'[z] = conn[z] /\ req'[z] = req[z] /\ answer'[z] = answer[z]
                           /\ wrote'[z] = wrote[z] /\ pcs'[z] = pcs[z]
    BY <1>2, <1>4, IsClient
  <1>6. Queue'
    <2>1. CASE up
      BY <1>1, <1>2, <1>3, <1>4, <2>1, QueueJoin
    <2>2. CASE ~up
      BY <1>1, <1>2, <1>3, <1>4, <2>2, QueueOther
    <2> QED BY <2>1, <2>2
  <1>7. req'[a].act = act /\ req'[a].index = i /\ req'[a].of = m
    BY <1>3
  <1>8. Requests'
    <2>1. wrote'[a] = 0 /\ conn'[a] # "none" /\ act \notin {"ReadModules", "RemoveModule"}
      BY <1>1, <1>2, <1>3 DEF Requests, ByIndex
    <2> QED BY <1>1, <1>2, <1>4, <1>5, <1>7, <2>1, IsClient DEF Requests
  <1>9. Lineage'
    BY <1>1, <1>2, <1>4, <1>5, IsClient DEF Lineage
  <1>10. Loading'
    <2>1. \A z \in Zygotes : LoopVars(z)'
      BY <1>1, <1>2, <1>5 DEF Loading, LoopVars, SameLoading
    <2>2. \A b \in Apps : pcs'[b] = "unborn" => table'[b] = <<>>
      BY <1>1, <1>4, IsClient DEF Loading, SameLoading
    <2> QED BY <1>1, <1>2, <1>5, <2>1, <2>2 DEF Loading
  <1>11. InOrder'
    <2> SUFFICES ASSUME NEW z \in Zygotes, Pending(z)', z # current
                 PROVE  Behind(z)' /\ Fresh'
      BY DEF InOrder
    <2>1. Behind(z) /\ Fresh /\ current \in Zygotes
      BY <1>1, <1>5, CurrentIs DEF InOrder
    <2>2. Behind(z)'
      <3>1. CASE up
        <4>1. backlog \in Seq(Clients)
          BY <1>1 DEF Typing
        <4>2. /\ Len(backlog') = Len(backlog) + 1 /\ backlog'[Len(backlog) + 1] = a
              /\ Len(backlog) \in Nat
              /\ \A k \in 1 .. Len(backlog) : backlog'[k] = backlog[k]
          <5>1. backlog' = Append(backlog, a)
            BY <1>3, <3>1
          <5> QED BY ONLY <1>2, <4>1, <5>1, AppendProperties
        <4> QED BY <1>2, <1>3, <1>5, <2>1, <4>2 DEF Behind
      <3>2. CASE ~up
        BY <1>3, <1>5, <2>1, <3>2 DEF Behind
      <3> QED BY <3>1, <3>2
    <2>3. Fresh'
      <3>1. \A b \in Apps : parent'[b] = current => table'[b] = <<>>
        BY <2>1 DEF Fresh, SameLoading
      <3>2. parent[a] = current => act \notin ByIndex
        <4> SUFFICES ASSUME parent[a] = current, act \in ByIndex PROVE FALSE
          OBVIOUS
        <4>1. table[a] = <<>> /\ Len(table[a]) = 0
          BY <2>1 DEF Fresh
        <4> QED BY <4>1
      <3>3. \A b \in Apps : parent'[b] = current => req'[b].act \notin ByIndex
        BY <1>4, <1>7, <2>1, <3>2, IsClient DEF Fresh
      <3> QED BY <1>5, <2>1, <3>1, <3>3 DEF Fresh
    <2> QED BY <2>2, <2>3
  <1>12. OneRemoval'
    BY <1>1, <1>5, OneRemovalKept
  <1>13. InStep'
    BY <1>1, <1>5, InStepSame DEF SameLists, SameLoading
  <1>14. Named'
    <2>1. ASSUME NEW z \in Zygotes, Removing(z)', SameDaemon(z)'
          PROVE  SameModule(z, req[z].of)'
      <3>1. SameModule(z, req[z].of)
        BY <1>1, <1>2, <1>5, <2>1 DEF Named, Removing, SameDaemon, SameLoading
      <3> QED BY <1>2, <1>5, <3>1 DEF SameModule, Indexed, Entry
    <2>2. ASSUME NEW b \in Apps, Pending(b)', req'[b].act \in ByIndex, parent'[b] = current',
                 current' \in Zygotes, SameDaemon(current)'
          PROVE  SameModule(b, req[b].of)'
      <3>1. SameDaemon(current)
        BY <1>2, <2>2 DEF SameDaemon, SameLoading
      <3>2. CASE b # a
        <4>1. req'[b] = req[b] /\ SameModule(b, req[b].of)
          BY <1>1, <1>4, <2>2, <3>1, <3>2, IsClient DEF Named
        <4> QED BY <1>2, <4>1 DEF SameModule, Indexed, Entry
      <3>3. CASE b = a
        <4>1. i + 1 \in 1 .. Len(table[a]) /\ m = table[a][i + 1] /\ i \in Nat
          BY <1>7, <2>2, <3>3
        <4>2. table[a] \in Seq(Modules) /\ table[a] # <<>>
          BY <1>1, <4>1 DEF Typing
        <4>3. Same(list, table[a])
          BY <1>1, <2>2, <3>1, <3>3, <4>2 DEF InStep, HasForked
        <4>4. i < Len(list) /\ list[i + 1] = m
          BY <4>1, <4>2, <4>3 DEF Same
        <4> QED BY <1>2, <1>7, <3>3, <4>4 DEF SameModule, Indexed, Entry
      <3> QED BY <3>2, <3>3
    <2> QED BY <2>1, <2>2 DEF Named
  <1> QED BY <1>6, <1>8, <1>9, <1>10, <1>11, <1>12, <1>13, <1>14 DEF IInv

-----------------------------------------------------------------------------
(* The zygote that runs, and those before it.                              *)
LEMMA Runs ==
    ASSUME Requests, Lineage, NEW z \in Zygotes, pcs[z] \notin {"unborn", "dead"}
    PROVE  /\ z = current
           /\ \A y \in Zygotes \ {z} : pcs[y] \in {"unborn", "dead"}
           /\ pcs[z] \notin {"ready", "bare"} => \A a \in Apps : parent[a] # z
           /\ pcs[z] \notin {"read", "remove", "bare"} => conn[z] = "none"
  BY DEF Requests, Lineage

LEMMA Alone ==
    ASSUME InOrder, current \in Zygotes,
           pcs[current] \in {"load", "remove", "ready"} \/ conn[current] = "answered"
    PROVE  \A y \in Zygotes : Pending(y) => y = current
  BY DEF InOrder, Behind, Fresh

LEMMA StartZygoteKeeps ==
    ASSUME IInv, NEW z \in Zygotes, StartZygote(z)
    PROVE  TypeOK' /\ IInv'
  <1>1. /\ Queue /\ Requests /\ Lineage /\ Loading /\ InOrder /\ OneRemoval /\ InStep /\ Named
        /\ Typing /\ TypeOK
    BY TypingFact DEF IInv
  <1>2. /\ TypeOK'
        /\ pcs[z] = "unborn" /\ (current \in Zygotes => pcs[current] = "dead")
        /\ pcs'[z] \in {"read", "restart"} /\ OnlyProgram(z)
        /\ current' = z /\ parent' = parent
        /\ UNCHANGED daemonVars /\ UNCHANGED connVars /\ UNCHANGED loadVars
    BY <1>1, StartZygoteDoes
  <1>3. /\ conn' = conn /\ req' = req /\ wrote' = wrote /\ answer' = answer
        /\ serving' = serving /\ backlog' = backlog /\ SameLoading
        /\ up' = up /\ started' = started /\ list' = list
    BY <1>2 DEF connVars, loadVars, daemonVars, SameLoading
  <1>4. \A d \in Clients \ {z} : pcs'[d] = pcs[d]
    BY <1>2 DEF OnlyProgram
  <1>5. /\ conn[z] = "none" /\ req[z] = NoRequest /\ (\A a \in Apps : parent[a] # z)
        /\ \A y \in Zygotes : pcs[y] \in {"unborn", "dead"}
    <2>1. conn[z] = "none" /\ req[z] = NoRequest
      BY <1>1, <1>2, IsClient DEF Requests
    <2>2. \A a \in Apps : parent[a] # z
      BY <1>1, <1>2 DEF Lineage
    <2>3. \A y \in Zygotes : pcs[y] \in {"unborn", "dead"}
      BY <1>1, <1>2 DEF Lineage
    <2> QED BY <2>1, <2>2, <2>3
  <1>6. Queue'
    BY <1>1, <1>3, QueueSame
  <1>7. Requests'
    BY <1>1, <1>2, <1>3, <1>4, <1>5, IsClient DEF Requests
  <1>8. Lineage'
    BY <1>1, <1>2, <1>3, <1>4, <1>5, IsClient DEF Lineage
  <1>9. Loading'
    <2>1. \A y \in Zygotes : LoopVars(y)'
      BY <1>1, <1>2, <1>3, <1>4, IsClient DEF Loading, LoopVars, SameLoading
    <2>2. \A y \in Zygotes : pcs'[y] = "read" /\ Answered(y)' => answer'[y].from <= started'
      BY <1>3, <1>4, <1>5, IsClient
    <2>3. \A a \in Apps : pcs'[a] = "unborn" => table'[a] = <<>>
      BY <1>1, <1>3, <1>4, IsClient DEF Loading, SameLoading
    <2> QED BY <2>1, <2>2, <2>3 DEF Loading
  <1>10. InOrder'
    <2>1. \A i \in 1 .. Len(backlog) : backlog[i] # z
      BY <1>1, <1>5, IsClient DEF Queue
    <2>2. \A y \in Zygotes : Behind(y)'
      BY <1>2, <1>3, <1>5, <2>1 DEF Behind
    <2>3. Fresh'
      BY <1>2, <1>3, <1>5 DEF Fresh
    <2> QED BY <2>2, <2>3 DEF InOrder
  <1>11. OneRemoval'
    BY <1>1, <1>3 DEF OneRemoval, Removing
  <1>12. InStep'
    BY <1>2, <1>3, <1>5 DEF InStep, HasRead, HasLoaded, HasRemoved, IsReady, HasForked
  <1>13. Named'
    <2>1. ASSUME NEW y \in Zygotes, Removing(y)', SameDaemon(y)'
          PROVE  SameModule(y, req[y].of)'
      BY <1>1, <1>3, <2>1
         DEF Named, Removing, SameDaemon, SameLoading, SameModule, Indexed, Entry
    <2> QED BY <1>2, <1>5, <2>1 DEF Named
  <1> QED BY <1>2, <1>6, <1>7, <1>8, <1>9, <1>10, <1>11, <1>12, <1>13 DEF IInv

LEMMA AskRestartKeeps ==
    ASSUME IInv, NEW z \in Zygotes, AskRestart(z)
    PROVE  TypeOK' /\ IInv'
  <1>1. /\ Queue /\ Requests /\ Lineage /\ Loading /\ InOrder /\ OneRemoval /\ InStep /\ Named
        /\ Typing /\ TypeOK
    BY TypingFact DEF IInv
  <1>2. /\ TypeOK'
        /\ pcs[z] = "restart" /\ pcs'[z] = "read" /\ OnlyProgram(z)
        /\ current' = current /\ parent' = parent
        /\ UNCHANGED daemonVars /\ UNCHANGED loadVars
        /\ \/ UNCHANGED connVars
           \/ /\ up /\ conn[Tracer] = "none" /\ conn'[Tracer] = "queued" /\ OnlyConn(Tracer)
              /\ backlog' = Append(backlog, Tracer) /\ serving' = serving
              /\ req'[Tracer].act = "ZygoteRestart" /\ wrote'[Tracer] = 1
    BY <1>1, AskRestartDoes
  <1>3. /\ up' = up /\ started' = started /\ list' = list /\ SameDaemonVars /\ SameLoading
    BY <1>2 DEF loadVars, daemonVars, SameLoading, SameDaemonVars
  <1>4. \A d \in Clients \ {z} : pcs'[d] = pcs[d]
    BY <1>2 DEF OnlyProgram
  <1>5. z = current /\ conn[z] = "none" /\ \A a \in Apps : parent[a] # z
    BY <1>1, <1>2, Runs
  <1>6. \A d \in Clients \ {Tracer} : /\ conn'[d] = conn[d] /\ req'[d] = req[d]
                                      /\ wrote'[d] = wrote[d] /\ answer'[d] = answer[d]
    BY <1>2 DEF connVars, OnlyConn
  <1>7. \A d \in Zygotes \cup Apps : d \in Clients /\ d # Tracer
    BY IsClient
  <1>8. Queue'
    <2>1. CASE UNCHANGED connVars
      BY <1>1, <1>3, <2>1, QueueSame DEF connVars
    <2>2. CASE ~UNCHANGED connVars
      BY <1>1, <1>2, <1>3, <1>6, <2>2, IsClient, QueueJoin
    <2> QED BY <2>1, <2>2
  <1>9. Requests'
    <2>1. /\ conn'[Tracer] = "none" => req'[Tracer] = NoRequest /\ wrote'[Tracer] = 0
          /\ wrote'[Tracer] = 2 => req'[Tracer].act \in WithArguments
          /\ req'[Tracer].act \notin {"ReadModules", "RemoveModule"}
      <3>1. CASE UNCHANGED connVars
        BY <1>1, <3>1, IsClient DEF Requests, connVars
      <3>2. CASE ~UNCHANGED connVars
        BY <1>2, <3>2
      <3> QED BY <3>1, <3>2
    <2>2. \A c \in Clients :
              /\ conn'[c] = "none" => req'[c] = NoRequest /\ wrote'[c] = 0
              /\ wrote'[c] = 2 => req'[c].act \in WithArguments
      BY <1>1, <1>6, <2>1 DEF Requests
    <2>3. \A c \in Apps \cup {Tracer} : req'[c].act \notin {"ReadModules", "RemoveModule"}
      BY <1>1, <1>6, <1>7, <2>1 DEF Requests
    <2> QED BY <1>1, <1>2, <1>4, <1>5, <1>6, <1>7, <2>2, <2>3 DEF Requests
  <1>10. Lineage'
    BY <1>1, <1>2, <1>4, <1>5, <1>6, <1>7, IsClient DEF Lineage
  <1>11. Loading'
    <2>1. \A y \in Zygotes : LoopVars(y)'
      BY <1>1, <1>2, <1>3, <1>4, IsClient DEF Loading, LoopVars, SameLoading
    <2>2. \A y \in Zygotes : pcs'[y] = "read" /\ Answered(y)' => answer'[y].from <= started'
      BY <1>1, <1>3, <1>4, <1>5, <1>6, <1>7 DEF Loading
    <2>3. \A a \in Apps : pcs'[a] = "unborn" => table'[a] = <<>>
      BY <1>1, <1>3, <1>4, IsClient DEF Loading, SameLoading
    <2> QED BY <2>1, <2>2, <2>3 DEF Loading
  <1>12. InOrder'
    <2> SUFFICES ASSUME NEW y \in Zygotes, Pending(y)', y # current
                 PROVE  Behind(y)' /\ Fresh'
      BY <1>2 DEF InOrder
    <2>1. Behind(y) /\ Fresh
      BY <1>1, <1>6, <1>7 DEF InOrder
    <2>2. Behind(y)'
      <3>1. conn'[current] = conn[current]
        BY <1>5, <1>6, <1>7
      <3>2. \A i \in 1 .. Len(backlog) : backlog[i] # current
        BY <1>1, <1>5, IsClient DEF Queue
      <3>3. CASE UNCHANGED connVars
        BY <1>2, <2>1, <3>3 DEF Behind, connVars
      <3>4. CASE ~UNCHANGED connVars
        <4>1. backlog \in Seq(Clients) /\ backlog' = Append(backlog, Tracer) /\ Tracer \in Clients
          BY <1>1, <1>2, <3>4, IsClient DEF Typing
        <4>2. /\ Len(backlog') = Len(backlog) + 1 /\ backlog'[Len(backlog) + 1] = Tracer
              /\ Len(backlog) \in Nat
              /\ \A k \in 1 .. Len(backlog) : backlog'[k] = backlog[k]
          BY ONLY <4>1, AppendProperties
        <4>3. \A i \in 1 .. Len(backlog') : backlog'[i] # current
          BY <1>5, <1>7, <3>2, <4>2
        <4> QED BY <1>2, <2>1, <3>1, <4>3 DEF Behind
      <3> QED BY <3>3, <3>4
    <2>3. Fresh'
      BY <1>2, <1>3, <1>5, <1>6, <1>7, <2>1 DEF Fresh, SameLoading
    <2> QED BY <2>2, <2>3
  <1>13. OneRemoval'
    BY <1>1, <1>6, <1>7, OneRemovalKept
  <1>14. InStep'
    BY <1>2, <1>5, <1>6, <1>7
       DEF InStep, HasRead, HasLoaded, HasRemoved, IsReady, HasForked
  <1>15. Named'
    BY <1>1, <1>2, <1>3, <1>6, <1>7, NamedKept DEF SameLoading
  <1> QED
    BY <1>2, <1>8, <1>9, <1>10, <1>11, <1>12, <1>13, <1>14, <1>15 DEF IInv

LEMMA AskModulesKeeps ==
    ASSUME IInv, NEW z \in Zygotes, AskModules(z)
    PROVE  TypeOK' /\ IInv'
  <1>1. /\ Queue /\ Requests /\ Lineage /\ Loading /\ InOrder /\ OneRemoval /\ InStep /\ Named
        /\ Typing /\ TypeOK /\ ConnTyped /\ z \in Clients
    BY TypingFact, TypeParts, IsClient DEF IInv
  <1>2. /\ pcs[z] = "read" /\ Connect(z, "ReadModules", 0, Nobody)
        /\ UNCHANGED loadVars /\ UNCHANGED progVars /\ UNCHANGED daemonVars
    BY DEF AskModules
  <1>3. TypeOK'
    BY <1>1, <1>2, AsksDoes DEF Actions
  <1>4. /\ up' = up /\ started' = started /\ list' = list /\ SameDaemonVars /\ SameLoading
        /\ pcs' = pcs /\ current' = current /\ parent' = parent
    BY <1>2 DEF loadVars, progVars, daemonVars, SameLoading, SameDaemonVars
  <1>5. /\ OnlyConn(z) /\ conn[z] = "none"
        /\ \/ up /\ conn'[z] = "queued" /\ backlog' = Append(backlog, z)
           \/ ~up /\ conn'[z] = "refused" /\ backlog' = backlog
        /\ req'[z] = [act |-> "ReadModules", index |-> 0, of |-> Nobody]
        /\ wrote'[z] = wrote[z] /\ answer'[z] = answer[z] /\ serving' = serving
    BY <1>1, <1>2, ConnectFacts
  <1>6. \A d \in Clients \ {z} : /\ conn'[d] = conn[d] /\ req'[d] = req[d]
                                 /\ wrote'[d] = wrote[d] /\ answer'[d] = answer[d]
    BY <1>5 DEF OnlyConn
  <1>7. req'[z].act = "ReadModules"
    BY <1>5
  <1>8. z = current /\ \A a \in Apps : parent[a] # z
    BY <1>1, <1>2, Runs
  <1>9. Queue'
    <2>1. CASE up
      BY <1>1, <1>4, <1>5, <1>6, <2>1, QueueJoin
    <2>2. CASE ~up
      BY <1>1, <1>4, <1>5, <1>6, <2>2, QueueOther
    <2> QED BY <2>1, <2>2
  <1>10. Requests'
    <2>1. wrote'[z] = 0
      BY <1>1, <1>5 DEF Requests
    <2> QED BY <1>1, <1>2, <1>4, <1>5, <1>6, <1>7, <2>1, IsClient DEF Requests
  <1>11. Lineage'
    BY <1>1, <1>4, <1>6, <1>8, IsClient DEF Lineage
  <1>12. Loading'
    <2>1. \A y \in Zygotes : LoopVars(y)'
      BY <1>1, <1>4 DEF Loading, LoopVars, SameLoading
    <2> QED BY <1>1, <1>4, <1>5, <1>6, <2>1, IsClient DEF Loading, SameLoading
  <1>13. InOrder'
    <2> SUFFICES ASSUME NEW y \in Zygotes, Pending(y)', y # current
                 PROVE  Behind(y)' /\ Fresh'
      BY <1>4 DEF InOrder
    <2>1. Behind(y) /\ Fresh /\ Pending(y) /\ y \in Clients
      BY <1>1, <1>6, <1>8, IsClient DEF InOrder
    <2>2. Behind(y)'
      <3>1. conn'[z] \notin {"open", "answered"}
        BY <1>5
      <3>2. CASE up
        <4>1. backlog \in Seq(Clients) /\ backlog' = Append(backlog, z)
          BY <1>1, <1>5, <3>2 DEF Typing
        <4>2. /\ Len(backlog') = Len(backlog) + 1 /\ Len(backlog) \in Nat
              /\ \A k \in 1 .. Len(backlog) : backlog'[k] = backlog[k]
          BY ONLY <1>1, <4>1, AppendProperties
        <4>3. serving = y \/ \E j \in 1 .. Len(backlog) : backlog[j] = y
          BY <1>1, <2>1 DEF Queue
        <4>4. ASSUME NEW i \in 1 .. Len(backlog'), backlog'[i] = current
              PROVE  serving' = y \/ \E j \in 1 .. i - 1 : backlog'[j] = y
          <5>1. i = Len(backlog) + 1
            <6>1. \A k \in 1 .. Len(backlog) : backlog[k] # z
              BY <1>1, <1>5 DEF Queue
            <6> QED BY <1>8, <4>2, <4>4, <6>1
          <5> QED BY <1>5, <4>2, <4>3, <5>1
        <4> QED BY <1>4, <1>8, <3>1, <4>4 DEF Behind
      <3>3. CASE ~up
        BY <1>4, <1>5, <1>8, <2>1, <3>1, <3>3 DEF Behind
      <3> QED BY <3>2, <3>3
    <2>3. Fresh'
      BY <1>4, <1>7, <1>8, <2>1 DEF Fresh
    <2> QED BY <2>2, <2>3
  <1>14. OneRemoval'
    BY <1>1, <1>6, <1>7, IsClient DEF OneRemoval, Removing
  <1>15. InStep'
    BY <1>2, <1>4, <1>5, <1>8 DEF InStep, HasRead, HasLoaded, HasRemoved, IsReady, HasForked
  <1>16. Named'
    <2>1. ASSUME NEW y \in Zygotes, Removing(y)', SameDaemon(y)'
          PROVE  SameModule(y, req[y].of)'
      <3>1. y # z /\ req'[y] = req[y] /\ conn'[y] = conn[y]
        BY <1>6, <1>7, <2>1, IsClient DEF Removing
      <3>2. SameModule(y, req[y].of)
        BY <1>1, <1>4, <2>1, <3>1 DEF Named, Removing, SameDaemon, SameLoading
      <3> QED BY <1>4, <3>1, <3>2 DEF SameModule, Indexed, Entry
    <2> QED BY <1>4, <1>8, <2>1 DEF Named
  <1> QED
    BY <1>3, <1>9, <1>10, <1>11, <1>12, <1>13, <1>14, <1>15, <1>16 DEF IInv

(* A zygote that did not get the list asks again, or runs without modules. *)
LEMMA ReadEndsKeeps ==
    ASSUME IInv, TypeOK', NEW z \in Zygotes, Closes(z), pcs[z] = "read",
           pcs'[z] \in {"read", "bare"}
    PROVE  IInv'
  <1>1. /\ Queue /\ Requests /\ Lineage /\ Loading /\ InOrder /\ OneRemoval /\ InStep /\ Named
        /\ z \in Clients
    BY IsClient DEF IInv
  <1>2. /\ conn[z] \in {"answered", "refused", "reset"}
        /\ conn'[z] = "none" /\ req'[z] = NoRequest /\ wrote'[z] = 0
        /\ serving' = serving /\ backlog' = backlog
        /\ current' = current /\ parent' = parent /\ SameLoading /\ SameDaemonVars
        /\ up' = up /\ started' = started /\ list' = list
    BY DEF Closes, Cleared, SameDaemonVars
  <1>3. \A d \in Clients \ {z} : /\ conn'[d] = conn[d] /\ req'[d] = req[d]
                                 /\ wrote'[d] = wrote[d] /\ answer'[d] = answer[d]
                                 /\ pcs'[d] = pcs[d]
    BY DEF Closes, OnlyConn, OnlyProgram
  <1>4. z = current /\ \A a \in Apps : parent[a] # z
    BY <1>1, Runs
  <1>5. Queue'
    BY <1>1, <1>2, <1>3, QueueOther
  <1>6. Requests'
    BY <1>1, <1>2, <1>3, IsClient DEF Requests, NoRequest
  <1>7. Lineage'
    BY <1>1, <1>2, <1>3, <1>4, IsClient DEF Lineage
  <1>8. Loading'
    <2>1. \A y \in Zygotes : LoopVars(y)'
      BY <1>1, <1>2, <1>3, IsClient DEF Loading, LoopVars, SameLoading
    <2> QED BY <1>1, <1>2, <1>3, <2>1, IsClient DEF Loading, SameLoading
  <1>9. InOrder'
    <2>1. \A y \in Zygotes : Pending(y)' => Pending(y)
      BY <1>2, <1>3, IsClient
    <2>2. \A a \in Apps : req'[a] = req[a]
      BY <1>3, <1>1, IsClient
    <2>3. \A a \in Apps : table'[a] = table[a]
      BY <1>2 DEF SameLoading
    <2>4. pcs'[current] \in {pcs[current], "bare", "dead"} /\ conn'[current] = "none"
      BY <1>2, <1>4
    <2> QED BY <1>1, <1>2, <2>1, <2>2, <2>3, <2>4, InOrderKept
  <1>10. \A d \in Zygotes \cup Apps : Pending(d)' => Pending(d) /\ req'[d] = req[d]
    BY <1>2, <1>3, IsClient
  <1>11. OneRemoval'
    BY <1>1, <1>10, OneRemovalKept
  <1>12. InStep'
    BY <1>2, <1>4 DEF InStep, HasRead, HasLoaded, HasRemoved, IsReady, HasForked
  <1>13. Named'
    BY <1>1, <1>2, <1>10, NamedKept DEF SameLoading
  <1> QED BY <1>5, <1>6, <1>7, <1>8, <1>9, <1>11, <1>12, <1>13 DEF IInv

LEMMA ReadTimesOutKeeps ==
    ASSUME IInv, NEW z \in Zygotes, ReadTimesOut(z)
    PROVE  TypeOK' /\ IInv'
  <1>1. /\ Queue /\ Requests /\ Lineage /\ Loading /\ InOrder /\ OneRemoval /\ InStep /\ Named
        /\ TypeOK /\ z \in Clients
    BY IsClient DEF IInv
  <1>2. /\ TypeOK' /\ pcs[z] = "read" /\ conn[z] \in {"queued", "open"} /\ pcs'[z] = "bare"
        /\ current' = current /\ parent' = parent
        /\ conn' = conn /\ req' = req /\ wrote' = wrote /\ answer' = answer
        /\ serving' = serving /\ backlog' = backlog
        /\ SameDaemonVars /\ up' = up /\ started' = started /\ list' = list /\ SameLoading
    BY <1>1, ReadTimesOutDoes DEF connVars, SameDaemonVars
  <1>3. \A d \in Clients \ {z} : pcs'[d] = pcs[d]
    BY <1>1, ReadTimesOutDoes DEF OnlyProgram
  <1>4. z = current /\ \A a \in Apps : parent[a] # z
    BY <1>1, <1>2, Runs
  <1>5. Queue'
    BY <1>1, <1>2, QueueSame
  <1>6. Requests'
    BY <1>1, <1>2, <1>3, IsClient DEF Requests
  <1>7. Lineage'
    BY <1>1, <1>2, <1>3, <1>4, IsClient DEF Lineage
  <1>8. Loading'
    <2>1. \A y \in Zygotes : LoopVars(y)'
      BY <1>1, <1>2, <1>3, IsClient DEF Loading, LoopVars, SameLoading
    <2> QED BY <1>1, <1>2, <1>3, <2>1, IsClient DEF Loading, SameLoading
  <1>9. \A d \in Zygotes \cup Apps : Pending(d)' => Pending(d) /\ req'[d] = req[d]
    BY <1>2
  <1>10. InOrder'
    <2>1. \A a \in Apps : req'[a] = req[a] /\ table'[a] = table[a]
      BY <1>2 DEF SameLoading
    <2>2. pcs'[current] = "bare" /\ conn'[current] = conn[current]
      BY <1>2, <1>4
    <2> QED BY <1>1, <1>2, <1>9, <2>1, <2>2, InOrderKept
  <1>11. OneRemoval'
    BY <1>1, <1>9, OneRemovalKept
  <1>12. InStep'
    <2>1. HasRead(current)' /\ HasLoaded(current)' /\ HasRemoved(current)' /\ IsReady(current)'
      BY <1>2, <1>4 DEF HasRead, HasLoaded, HasRemoved, IsReady
    <2>2. HasForked(current)'
      BY <1>2, <1>4 DEF HasForked
    <2> QED BY <2>1, <2>2 DEF InStep
  <1>13. Named'
    BY <1>1, <1>2, <1>9, NamedKept DEF SameLoading
  <1> QED BY <1>2, <1>5, <1>6, <1>7, <1>8, <1>10, <1>11, <1>12, <1>13 DEF IInv

LEMMA ReadSucceedsKeeps ==
    ASSUME IInv, NEW z \in Zygotes, ReadSucceeds(z)
    PROVE  TypeOK' /\ IInv'
  <1>1. /\ Queue /\ Requests /\ Lineage /\ Loading /\ InOrder /\ OneRemoval /\ InStep /\ Named
        /\ Typing /\ TypeOK /\ z \in Clients
    BY TypingFact, IsClient DEF IInv
  <1>2. /\ TypeOK'
        /\ pcs[z] = "read" /\ conn[z] = "answered" /\ pcs'[z] = "load"
        /\ OnlyConn(z) /\ Cleared(z) /\ serving' = serving /\ backlog' = backlog
        /\ OnlyProgram(z) /\ current' = current /\ parent' = parent
        /\ OnlyLoading(z) /\ SameDaemonVars
        /\ found'[z] = answer[z].modules /\ readFrom'[z] = answer[z].from
        /\ table'[z] = table[z] /\ removed'[z] = removed[z] /\ position'[z] = position[z]
    BY <1>1, ReadSucceedsDoes
  <1>3. /\ up' = up /\ started' = started /\ list' = list
        /\ conn'[z] = "none" /\ req'[z] = NoRequest /\ wrote'[z] = 0
    BY <1>2 DEF SameDaemonVars, Cleared
  <1>4. \A d \in Clients \ {z} : /\ conn'[d] = conn[d] /\ req'[d] = req[d]
                                 /\ wrote'[d] = wrote[d] /\ answer'[d] = answer[d]
                                 /\ pcs'[d] = pcs[d]
    BY <1>2 DEF OnlyConn, OnlyProgram
  <1>5. \A y \in Zygotes \ {z} :
            /\ found'[y] = found[y] /\ readFrom'[y] = readFrom[y] /\ table'[y] = table[y]
            /\ removed'[y] = removed[y] /\ position'[y] = position[y]
    BY <1>2 DEF OnlyLoading
  <1>6. \A a \in Apps : table'[a] = table[a] /\ a # z /\ a \in Clients
    BY <1>2, IsClient DEF OnlyLoading
  <1>7. z = current /\ \A a \in Apps : parent[a] # z
    BY <1>1, <1>2, Runs
  <1>8. \A y \in Zygotes : ~Pending(y)'
    BY <1>1, <1>2, <1>3, <1>4, <1>7, IsClient, Alone
  <1>9. /\ table[z] = <<>> /\ removed[z] = 0 /\ position[z] = 1 /\ answer[z].from <= started
    BY <1>1, <1>2 DEF Loading, LoopVars
  <1>10. Queue'
    BY <1>1, <1>2, <1>3, <1>4, QueueOther
  <1>11. Requests'
    BY <1>1, <1>2, <1>3, <1>4, IsClient DEF Requests, NoRequest
  <1>12. Lineage'
    BY <1>1, <1>2, <1>4, <1>7, IsClient DEF Lineage
  <1>13. Loading'
    <2>1. Len(found'[z]) \in Nat
      <3>1. answer[z].modules \in Seq(Modules)
        BY <1>1 DEF TypeOK
      <3> QED BY <1>2, <3>1
    <2>2. LoopVars(z)'
      BY <1>2, <1>3, <1>9, <2>1 DEF LoopVars
    <2>3. \A y \in Zygotes \ {z} : LoopVars(y)'
      BY <1>1, <1>3, <1>4, <1>5, IsClient DEF Loading, LoopVars
    <2> QED BY <1>1, <1>2, <1>3, <1>4, <1>6, <2>2, <2>3, IsClient DEF Loading
  <1>14. InOrder' /\ OneRemoval'
    BY <1>8 DEF InOrder, OneRemoval, Removing
  <1>15. InStep'
    <2>1. HasForked(current)' /\ HasRead(current)' /\ HasRemoved(current)' /\ IsReady(current)'
      BY <1>2, <1>7 DEF HasForked, HasRead, HasRemoved, IsReady
    <2>2. ASSUME SameDaemon(z)'
          PROVE  (/\ Len(table[z]) + removed[z] = position[z] - 1
                  /\ Joins(list, table[z], found[z], position[z]))'
      <3>1. found'[z] = list
        BY <1>1, <1>2, <1>3, <1>7, <2>2 DEF SameDaemon, InStep, HasRead
      <3>2. list \in Seq(Modules)
        BY <1>1 DEF Typing
      <3> QED BY <1>2, <1>3, <1>9, <3>1, <3>2 DEF Joins
    <2>3. HasLoaded(current)'
      BY <1>2, <1>7, <2>2 DEF HasLoaded
    <2> QED BY <2>1, <2>3 DEF InStep
  <1>16. Named'
    BY <1>2, <1>7, <1>8 DEF Named, Removing
  <1> QED BY <1>2, <1>10, <1>11, <1>12, <1>13, <1>14, <1>15, <1>16 DEF IInv

-----------------------------------------------------------------------------
(* A module that loads goes from what is to be loaded to the table.        *)
LEMMA JoinsAppend ==
    ASSUME NEW s \in Seq(Modules), NEW t \in Seq(Modules), NEW u \in Seq(Modules),
           NEW i \in 1 .. Len(u), Joins(s, t, u, i)
    PROVE  Joins(s, Append(t, u[i]), u, i + 1) /\ Len(Append(t, u[i])) = Len(t) + 1
  <1>1. /\ Len(s) = Len(t) + (Len(u) + 1 - i)
        /\ \A k \in 1 .. Len(t) : s[k] = t[k]
        /\ \A k \in i .. Len(u) : s[Len(t) + (k + 1 - i)] = u[k]
    BY DEF Joins
  <1>2. Len(t) \in Nat /\ Len(u) \in Nat /\ i \in Nat /\ i <= Len(u) /\ u[i] \in Modules
    OBVIOUS
  <1> DEFINE w == Append(t, u[i])
  <1>3. /\ Len(w) = Len(t) + 1 /\ w[Len(t) + 1] = u[i]
        /\ \A k \in 1 .. Len(t) : w[k] = t[k]
    BY ONLY <1>2, t \in Seq(Modules), AppendProperties
  <1> HIDE DEF w
  <1>4. s[Len(t) + 1] = u[i]
    <2>1. s[Len(t) + (i + 1 - i)] = u[i]
      BY <1>1, <1>2
    <2>2. Len(t) + (i + 1 - i) = Len(t) + 1
      BY <1>2
    <2> QED BY <2>1, <2>2
  <1>5. ASSUME NEW k \in 1 .. Len(w) PROVE s[k] = w[k]
    <2>1. CASE k = Len(t) + 1
      BY <1>3, <1>4, <2>1
    <2>2. CASE k # Len(t) + 1
      <3>1. k \in 1 .. Len(t)
        BY <1>2, <1>3, <2>2
      <3> QED BY <1>1, <1>3, <3>1
    <2> QED BY <2>1, <2>2
  <1>6. ASSUME NEW k \in i + 1 .. Len(u)
        PROVE  s[Len(w) + (k + 1 - (i + 1))] = u[k]
    <2>1. Len(w) + (k + 1 - (i + 1)) = Len(t) + (k + 1 - i)
      BY <1>2, <1>3
    <2>2. s[Len(t) + (k + 1 - i)] = u[k]
      BY <1>1, <1>2
    <2> QED BY <2>1, <2>2
  <1>7. Len(s) = Len(w) + (Len(u) + 1 - (i + 1))
    BY <1>1, <1>2, <1>3
  <1>8. Joins(s, w, u, i + 1)
    BY <1>5, <1>6, <1>7 DEF Joins
  <1> QED BY <1>3, <1>8 DEF w

LEMMA ModuleLoadsKeeps ==
    ASSUME IInv, NEW z \in Zygotes, ModuleLoads(z)
    PROVE  TypeOK' /\ IInv'
  <1>1. /\ Queue /\ Requests /\ Lineage /\ Loading /\ InOrder /\ OneRemoval /\ InStep /\ Named
        /\ Typing /\ TypeOK /\ z \in Clients
    BY TypingFact, IsClient DEF IInv
  <1>2. /\ TypeOK'
        /\ pcs[z] = "load" /\ position[z] <= Len(found[z])
        /\ UNCHANGED connVars /\ UNCHANGED progVars /\ UNCHANGED daemonVars
        /\ OnlyLoading(z)
        /\ found'[z] = found[z] /\ readFrom'[z] = readFrom[z] /\ removed'[z] = removed[z]
        /\ table'[z] = Append(table[z], found[z][position[z]])
        /\ position'[z] = position[z] + 1
    BY <1>1, ModuleLoadsDoes
  <1>3. /\ up' = up /\ started' = started /\ list' = list
        /\ conn' = conn /\ req' = req /\ wrote' = wrote /\ answer' = answer
        /\ serving' = serving /\ backlog' = backlog
        /\ pcs' = pcs /\ current' = current /\ parent' = parent
    BY <1>2 DEF connVars, progVars, daemonVars
  <1>4. \A y \in Zygotes \ {z} :
            /\ found'[y] = found[y] /\ readFrom'[y] = readFrom[y] /\ table'[y] = table[y]
            /\ removed'[y] = removed[y] /\ position'[y] = position[y]
    BY <1>2 DEF OnlyLoading
  <1>5. \A a \in Apps : table'[a] = table[a]
    BY <1>2, IsClient DEF OnlyLoading
  <1>6. z = current /\ (\A a \in Apps : parent[a] # z) /\ conn[z] = "none"
    BY <1>1, <1>2, Runs
  <1>7. \A y \in Zygotes : ~Pending(y)
    BY <1>1, <1>2, <1>6, Alone
  <1>8. /\ position[z] \in Nat \ {0} /\ removed[z] \in Nat /\ removed[z] < position[z]
        /\ found[z] \in Seq(Modules) /\ table[z] \in Seq(Modules) /\ list \in Seq(Modules)
        /\ Len(found[z]) \in Nat
    BY <1>1 DEF Loading, LoopVars, Typing
  <1>9. Queue' /\ Requests' /\ Lineage'
    BY <1>1, <1>3, QueueSame DEF Requests, Lineage
  <1>10. Loading'
    <2>1. LoopVars(z)'
      BY <1>1, <1>2, <1>3, <1>8 DEF Loading, LoopVars
    <2>2. \A y \in Zygotes \ {z} : LoopVars(y)'
      BY <1>1, <1>3, <1>4 DEF Loading, LoopVars
    <2> QED BY <1>1, <1>3, <1>5, <2>1, <2>2 DEF Loading
  <1>11. InOrder' /\ OneRemoval'
    BY <1>3, <1>7 DEF InOrder, OneRemoval, Removing
  <1>12. InStep'
    <2>1. HasForked(current)' /\ HasRead(current)' /\ HasRemoved(current)' /\ IsReady(current)'
      BY <1>2, <1>3, <1>6 DEF HasForked, HasRead, HasRemoved, IsReady
    <2>2. ASSUME SameDaemon(z)'
          PROVE  (/\ Len(table[z]) + removed[z] = position[z] - 1
                  /\ Joins(list, table[z], found[z], position[z]))'
      <3>1. SameDaemon(z)
        BY <1>2, <1>3, <2>2 DEF SameDaemon
      <3>2. /\ Len(table[z]) + removed[z] = position[z] - 1
            /\ Joins(list, table[z], found[z], position[z])
        BY <1>1, <1>2, <1>6, <3>1 DEF InStep, HasLoaded
      <3>3. position[z] \in 1 .. Len(found[z])
        BY <1>2, <1>8
      <3>4. /\ Joins(list, table'[z], found[z], position[z] + 1)
            /\ Len(table'[z]) = Len(table[z]) + 1 /\ Len(table[z]) \in Nat
        BY <1>2, <1>8, <3>2, <3>3, JoinsAppend
      <3>5. Len(table'[z]) + removed'[z] = position'[z] - 1
        <4>1. removed'[z] = removed[z] /\ position'[z] = position[z] + 1
          BY <1>2
        <4>2. /\ Len(table'[z]) = Len(table[z]) + 1 /\ Len(table[z]) \in Nat
              /\ Len(table[z]) + removed[z] = position[z] - 1
          BY <3>2, <3>4
        <4>3. removed[z] \in Nat /\ position[z] \in Nat
          BY <1>8
        <4> QED BY ONLY <4>1, <4>2, <4>3
      <3>6. Joins(list', table'[z], found'[z], position'[z])
        BY <1>2, <1>3, <3>4
      <3> QED BY <3>5, <3>6 DEF Joins
    <2>3. HasLoaded(current)'
      BY <1>3, <1>6, <2>2 DEF HasLoaded
    <2> QED BY <2>1, <2>3 DEF InStep
  <1>13. Named'
    BY <1>3, <1>6, <1>7 DEF Named, Removing
  <1> QED BY <1>2, <1>9, <1>10, <1>11, <1>12, <1>13 DEF IInv

(* A module that fails is removed at its index among those that remain.    *)
LEMMA ModuleFailsKeeps ==
    ASSUME IInv, NEW z \in Zygotes, ModuleFails(z)
    PROVE  TypeOK' /\ IInv'
  <1>1. /\ Queue /\ Requests /\ Lineage /\ Loading /\ InOrder /\ OneRemoval /\ InStep /\ Named
        /\ Typing /\ TypeOK /\ ConnTyped /\ z \in Clients
    BY TypingFact, TypeParts, IsClient DEF IInv
  <1> DEFINE i == RemovalIndex(z)
             m == found[z][position[z]]
  <1>2. /\ TypeOK'
        /\ pcs[z] = "load" /\ position[z] <= Len(found[z])
        /\ Connect(z, "RemoveModule", i, m)
        /\ pcs'[z] = "remove" /\ OnlyProgram(z) /\ current' = current /\ parent' = parent
        /\ UNCHANGED loadVars /\ UNCHANGED daemonVars
    BY <1>1, ModuleFailsDoes
  <1>3. i = position[z] - 1 - removed[z]
    BY DEF RemovalIndex
  <1> HIDE DEF i, m
  <1>4. /\ up' = up /\ started' = started /\ list' = list /\ SameDaemonVars /\ SameLoading
    BY <1>2 DEF loadVars, daemonVars, SameLoading, SameDaemonVars
  <1>5. /\ OnlyConn(z) /\ conn[z] = "none"
        /\ \/ up /\ conn'[z] = "queued" /\ backlog' = Append(backlog, z)
           \/ ~up /\ conn'[z] = "refused" /\ backlog' = backlog
        /\ req'[z] = [act |-> "RemoveModule", index |-> i, of |-> m]
        /\ wrote'[z] = wrote[z] /\ answer'[z] = answer[z] /\ serving' = serving
    BY <1>1, <1>2, ConnectFacts
  <1>6. \A d \in Clients \ {z} : /\ conn'[d] = conn[d] /\ req'[d] = req[d]
                                 /\ wrote'[d] = wrote[d] /\ answer'[d] = answer[d]
                                 /\ pcs'[d] = pcs[d]
    BY <1>2, <1>5 DEF OnlyConn, OnlyProgram
  <1>7. req'[z].act = "RemoveModule" /\ req'[z].index = i /\ req'[z].of = m
    BY <1>5
  <1>8. z = current /\ \A a \in Apps : parent[a] # z
    BY <1>1, <1>2, Runs
  <1>9. \A y \in Zygotes : Pending(y)' => y = z
    BY <1>1, <1>2, <1>6, <1>8, IsClient, Alone
  <1>10. /\ position[z] \in 1 .. Len(found[z]) /\ removed[z] \in Nat /\ removed[z] < position[z]
         /\ found[z] \in Seq(Modules) /\ table[z] \in Seq(Modules) /\ list \in Seq(Modules)
         /\ Len(table[z]) \in Nat /\ Len(found[z]) \in Nat /\ position[z] \in Nat
    BY <1>1, <1>2 DEF Loading, LoopVars, Typing
  <1>11. SameDaemon(z) =>
            /\ Len(table[z]) + removed[z] = position[z] - 1
            /\ Joins(list, table[z], found[z], position[z])
    BY <1>1, <1>2, <1>8 DEF InStep, HasLoaded
  <1>12. SameDaemon(z) => i = Len(table[z]) /\ i + 1 \in 1 .. Len(list) /\ list[i + 1] = m
    <2> SUFFICES ASSUME SameDaemon(z)
                 PROVE  i = Len(table[z]) /\ i + 1 \in 1 .. Len(list) /\ list[i + 1] = m
      OBVIOUS
    <2>1. i = Len(table[z])
      <3>1. Len(table[z]) + removed[z] = position[z] - 1
        BY <1>11
      <3>2. removed[z] \in Nat /\ position[z] \in Nat /\ Len(table[z]) \in Nat
        BY <1>10
      <3> QED BY ONLY <1>3, <3>1, <3>2
    <2>2. /\ Len(list) = Len(table[z]) + (Len(found[z]) + 1 - position[z])
          /\ list[Len(table[z]) + (position[z] + 1 - position[z])] = found[z][position[z]]
      <3>1. position[z] \in position[z] .. Len(found[z])
        <4>1. position[z] \in 1 .. Len(found[z]) /\ Len(found[z]) \in Nat
          BY <1>10
        <4> QED BY ONLY <4>1
      <3>2. /\ Len(list) = Len(table[z]) + (Len(found[z]) + 1 - position[z])
            /\ \A k \in position[z] .. Len(found[z]) :
                   list[Len(table[z]) + (k + 1 - position[z])] = found[z][k]
        BY <1>11, Zenon DEF Joins
      <3> QED BY <3>1, <3>2, Zenon
    <2>3. Len(table[z]) + (position[z] + 1 - position[z]) = i + 1
      BY <1>10, <2>1
    <2>4. i + 1 \in 1 .. Len(list)
      BY SMTT(30), <1>10, <2>1, <2>2
    <2> QED BY <2>1, <2>2, <2>3, <2>4 DEF m
  <1>13. Queue'
    <2>1. CASE up
      BY <1>1, <1>4, <1>5, <1>6, <2>1, QueueJoin
    <2>2. CASE ~up
      BY <1>1, <1>4, <1>5, <1>6, <2>2, QueueOther
    <2> QED BY <2>1, <2>2
  <1>14. Requests'
    <2>1. wrote'[z] = 0
      BY <1>1, <1>5 DEF Requests
    <2> QED BY <1>1, <1>2, <1>4, <1>5, <1>6, <1>7, <2>1, IsClient DEF Requests
  <1>15. Lineage'
    BY <1>1, <1>2, <1>4, <1>6, <1>8, IsClient DEF Lineage
  <1>16. Loading'
    <2>1. LoopVars(z)'
      BY <1>1, <1>2, <1>4 DEF Loading, LoopVars, SameLoading
    <2>2. \A y \in Zygotes \ {z} : LoopVars(y)'
      BY <1>1, <1>4, <1>6, IsClient DEF Loading, LoopVars, SameLoading
    <2> QED BY <1>1, <1>2, <1>4, <1>6, <2>1, <2>2, IsClient DEF Loading, SameLoading
  <1>17. InOrder' /\ OneRemoval'
    BY <1>2, <1>8, <1>9 DEF InOrder, OneRemoval, Removing
  <1>18. InStep'
    <2>1. HasForked(current)' /\ HasRead(current)' /\ IsReady(current)'
      BY <1>2, <1>8 DEF HasForked, HasRead, IsReady
    <2>2. /\ found'[z] = found[z] /\ table'[z] = table[z] /\ removed'[z] = removed[z]
          /\ position'[z] = position[z] /\ readFrom'[z] = readFrom[z]
      BY <1>4 DEF SameLoading
    <2>3. SameDaemon(z)' => SameDaemon(z) /\ up
      BY <1>4, <2>2 DEF SameDaemon
    <2>4. HasLoaded(current)'
      BY <1>2, <1>4, <1>8, <1>11, <2>2, <2>3 DEF HasLoaded, Joins
    <2>5. HasRemoved(current)'
      BY <1>2, <1>5, <1>7, <1>8, <1>12, <2>2, <2>3 DEF HasRemoved, m
    <2> QED BY <2>1, <2>4, <2>5 DEF InStep
  <1>19. Named'
    <2>1. ASSUME SameDaemon(z)' PROVE SameModule(z, req[z].of)'
      <3>1. SameDaemon(z)
        BY <1>4, <2>1 DEF SameDaemon, SameLoading
      <3>2. i < Len(list) /\ list[i + 1] = m
        BY <1>10, <1>12, <3>1
      <3> QED BY <1>4, <1>7, <3>2 DEF SameModule, Indexed, Entry
    <2> QED BY <1>2, <1>8, <1>9, <2>1 DEF Named, Removing
  <1> QED
    BY <1>2, <1>13, <1>14, <1>15, <1>16, <1>17, <1>18, <1>19 DEF IInv

LEMMA RemovalEndsKeeps ==
    ASSUME IInv, NEW z \in Zygotes, RemovalEnds(z)
    PROVE  TypeOK' /\ IInv'
  <1>1. /\ Queue /\ Requests /\ Lineage /\ Loading /\ InOrder /\ OneRemoval /\ InStep /\ Named
        /\ Typing /\ TypeOK /\ z \in Clients
    BY TypingFact, IsClient DEF IInv
  <1>2. /\ TypeOK'
        /\ pcs[z] = "remove" /\ conn[z] \in {"answered", "refused", "reset"}
        /\ pcs'[z] = "load"
        /\ OnlyConn(z) /\ Cleared(z) /\ serving' = serving /\ backlog' = backlog
        /\ OnlyProgram(z) /\ current' = current /\ parent' = parent
        /\ OnlyLoading(z) /\ SameDaemonVars
        /\ found'[z] = found[z] /\ readFrom'[z] = readFrom[z] /\ table'[z] = table[z]
        /\ removed'[z] = IF conn[z] = "answered" /\ answer[z].said = "yes"
                         THEN removed[z] + 1 ELSE removed[z]
        /\ position'[z] = position[z] + 1
    BY <1>1, RemovalEndsDoes
  <1>3. /\ up' = up /\ started' = started /\ list' = list
        /\ conn'[z] = "none" /\ req'[z] = NoRequest /\ wrote'[z] = 0
    BY <1>2 DEF SameDaemonVars, Cleared
  <1>4. \A d \in Clients \ {z} : /\ conn'[d] = conn[d] /\ req'[d] = req[d]
                                 /\ wrote'[d] = wrote[d] /\ answer'[d] = answer[d]
                                 /\ pcs'[d] = pcs[d]
    BY <1>2 DEF OnlyConn, OnlyProgram
  <1>5. \A y \in Zygotes \ {z} :
            /\ found'[y] = found[y] /\ readFrom'[y] = readFrom[y] /\ table'[y] = table[y]
            /\ removed'[y] = removed[y] /\ position'[y] = position[y]
    BY <1>2 DEF OnlyLoading
  <1>6. \A a \in Apps : table'[a] = table[a] /\ a # z /\ a \in Clients
    BY <1>2, IsClient DEF OnlyLoading
  <1>7. z = current /\ \A a \in Apps : parent[a] # z
    BY <1>1, <1>2, Runs
  <1>8. \A y \in Zygotes : ~Pending(y)'
    BY <1>1, <1>2, <1>3, <1>4, <1>7, IsClient, Alone
  <1>9. /\ position[z] \in Nat \ {0} /\ removed[z] \in Nat /\ removed[z] < position[z]
        /\ position[z] <= Len(found[z]) /\ readFrom[z] <= started
        /\ Len(found[z]) \in Nat /\ Len(table[z]) \in Nat
    BY <1>1, <1>2 DEF Loading, LoopVars, Typing
  <1>10. Queue'
    BY <1>1, <1>2, <1>3, <1>4, QueueOther
  <1>11. Requests'
    BY <1>1, <1>2, <1>3, <1>4, IsClient DEF Requests, NoRequest
  <1>12. Lineage'
    BY <1>1, <1>2, <1>4, <1>7, IsClient DEF Lineage
  <1>13. Loading'
    <2>1. removed'[z] < position'[z] /\ position'[z] <= Len(found[z]) + 1
      BY <1>2, <1>9
    <2>2. LoopVars(z)'
      BY <1>2, <1>3, <1>9, <2>1 DEF LoopVars
    <2>3. \A y \in Zygotes \ {z} : LoopVars(y)'
      BY <1>1, <1>3, <1>4, <1>5, IsClient DEF Loading, LoopVars
    <2> QED BY <1>1, <1>2, <1>3, <1>4, <1>6, <2>2, <2>3, IsClient DEF Loading
  <1>14. InOrder' /\ OneRemoval'
    BY <1>8 DEF InOrder, OneRemoval, Removing
  <1>15. InStep'
    <2>1. HasForked(current)' /\ HasRead(current)' /\ HasRemoved(current)' /\ IsReady(current)'
      BY <1>2, <1>7 DEF HasForked, HasRead, HasRemoved, IsReady
    <2>2. ASSUME SameDaemon(z)'
          PROVE  (/\ Len(table[z]) + removed[z] = position[z] - 1
                  /\ Joins(list, table[z], found[z], position[z]))'
      <3>1. SameDaemon(z)
        BY <1>2, <1>3, <2>2 DEF SameDaemon
      <3>2. /\ conn[z] = "answered" /\ answer[z].said = "yes"
            /\ Joins(list, table[z], found[z], position[z] + 1)
        BY <1>1, <1>2, <1>7, <3>1 DEF InStep, HasRemoved
      <3>3. Len(table[z]) + removed[z] = position[z] - 1
        BY <1>1, <1>2, <1>7, <3>1 DEF InStep, HasLoaded
      <3>4. removed'[z] = removed[z] + 1 /\ position'[z] = position[z] + 1
        BY <1>2, <3>2
      <3>5. Len(table[z]) + removed'[z] = position'[z] - 1
        <4>1. removed[z] \in Nat /\ position[z] \in Nat /\ Len(table[z]) \in Nat
          BY <1>9
        <4> QED BY ONLY SMTT(30), <3>3, <3>4, <4>1
      <3>6. Joins(list', table'[z], found'[z], position'[z])
        BY <1>2, <1>3, <3>2, <3>4
      <3> QED BY <1>2, <3>5, <3>6 DEF Joins
    <2>3. HasLoaded(current)'
      BY <1>2, <1>7, <2>2 DEF HasLoaded
    <2> QED BY <2>1, <2>3 DEF InStep
  <1>16. Named'
    BY <1>2, <1>7, <1>8 DEF Named, Removing
  <1> QED BY <1>2, <1>10, <1>11, <1>12, <1>13, <1>14, <1>15, <1>16 DEF IInv

LEMMA LoadingEndsKeeps ==
    ASSUME IInv, NEW z \in Zygotes, LoadingEnds(z)
    PROVE  TypeOK' /\ IInv'
  <1>1. /\ Queue /\ Requests /\ Lineage /\ Loading /\ InOrder /\ OneRemoval /\ InStep /\ Named
        /\ Typing /\ TypeOK /\ z \in Clients
    BY TypingFact, IsClient DEF IInv
  <1>2. /\ TypeOK'
        /\ pcs[z] = "load" /\ position[z] > Len(found[z])
        /\ pcs'[z] = "ready" /\ OnlyProgram(z) /\ current' = current /\ parent' = parent
        /\ UNCHANGED connVars /\ SameDaemonVars
        /\ OnlyLoading(z)
        /\ found'[z] = <<>> /\ removed'[z] = 0 /\ position'[z] = 1
        /\ readFrom'[z] = readFrom[z] /\ table'[z] = table[z]
    BY <1>1, LoadingEndsDoes
  <1>3. /\ up' = up /\ started' = started /\ list' = list
        /\ conn' = conn /\ req' = req /\ wrote' = wrote /\ answer' = answer
        /\ serving' = serving /\ backlog' = backlog
    BY <1>2 DEF SameDaemonVars, connVars
  <1>4. \A d \in Clients \ {z} : pcs'[d] = pcs[d]
    BY <1>2 DEF OnlyProgram
  <1>5. \A y \in Zygotes \ {z} :
            /\ found'[y] = found[y] /\ readFrom'[y] = readFrom[y] /\ table'[y] = table[y]
            /\ removed'[y] = removed[y] /\ position'[y] = position[y]
    BY <1>2 DEF OnlyLoading
  <1>6. \A a \in Apps : table'[a] = table[a] /\ a # z /\ a \in Clients
    BY <1>2, IsClient DEF OnlyLoading
  <1>7. z = current /\ (\A a \in Apps : parent[a] # z) /\ conn[z] = "none"
    BY <1>1, <1>2, Runs
  <1>8. \A y \in Zygotes : ~Pending(y)
    BY <1>1, <1>2, <1>7, Alone
  <1>9. /\ position[z] \in Nat /\ position[z] <= Len(found[z]) + 1 /\ readFrom[z] <= started
        /\ table[z] \in Seq(Modules) /\ Len(found[z]) \in Nat /\ Len(table[z]) \in Nat
    BY <1>1, <1>2 DEF Loading, LoopVars, Typing
  <1>10. Queue'
    BY <1>1, <1>3, QueueSame
  <1>11. Requests'
    BY <1>1, <1>2, <1>3, <1>4, <1>7, IsClient DEF Requests
  <1>12. Lineage'
    BY <1>1, <1>2, <1>3, <1>4, <1>7, IsClient DEF Lineage
  <1>13. Loading'
    <2>1. LoopVars(z)'
      BY <1>2, <1>3, <1>9 DEF LoopVars
    <2>2. \A y \in Zygotes \ {z} : LoopVars(y)'
      BY <1>1, <1>3, <1>4, <1>5, IsClient DEF Loading, LoopVars
    <2> QED BY <1>1, <1>2, <1>3, <1>4, <1>6, <2>1, <2>2, IsClient DEF Loading
  <1>14. InOrder' /\ OneRemoval'
    BY <1>3, <1>8 DEF InOrder, OneRemoval, Removing
  <1>15. InStep'
    <2>1. HasForked(current)' /\ HasRead(current)' /\ HasLoaded(current)' /\ HasRemoved(current)'
      BY <1>2, <1>7 DEF HasForked, HasRead, HasLoaded, HasRemoved
    <2>2. ASSUME SameDaemon(z)' PROVE Same(list, table[z])'
      <3>1. SameDaemon(z)
        BY <1>2, <1>3, <2>2 DEF SameDaemon
      <3>2. Joins(list, table[z], found[z], position[z])
        BY <1>1, <1>2, <1>7, <3>1 DEF InStep, HasLoaded
      <3>3. Len(found[z]) + 1 - position[z] = 0
        BY <1>2, <1>9
      <3>4. Same(list, table[z])
        BY <1>9, <3>2, <3>3 DEF Joins, Same
      <3> QED BY <1>2, <1>3, <3>4 DEF Same
    <2>3. IsReady(current)'
      BY <1>2, <1>7, <2>2 DEF IsReady
    <2> QED BY <2>1, <2>3 DEF InStep
  <1>16. Named'
    BY <1>2, <1>3, <1>7, <1>8 DEF Named, Removing
  <1> QED BY <1>2, <1>10, <1>11, <1>12, <1>13, <1>14, <1>15, <1>16 DEF IInv

LEMMA ForkKeeps ==
    ASSUME IInv, NEW z \in Zygotes, NEW a \in Apps, Fork(z, a)
    PROVE  TypeOK' /\ IInv'
  <1>1. /\ Queue /\ Requests /\ Lineage /\ Loading /\ InOrder /\ OneRemoval /\ InStep /\ Named
        /\ Typing /\ TypeOK /\ z \in Clients /\ a \in Clients
    BY TypingFact, IsClient DEF IInv
  <1>2. /\ TypeOK'
        /\ pcs[z] \in {"ready", "bare"} /\ pcs[a] = "unborn"
        /\ pcs'[a] = "flags" /\ OnlyProgram(a) /\ current' = current
        /\ parent'[a] = z /\ (\A b \in Apps \ {a} : parent'[b] = parent[b])
        /\ UNCHANGED connVars /\ SameDaemonVars
        /\ OnlyLoading(a) /\ table'[a] = table[z]
    BY <1>1, ForkDoes
  <1>3. /\ up' = up /\ started' = started /\ list' = list
        /\ conn' = conn /\ req' = req /\ wrote' = wrote /\ answer' = answer
        /\ serving' = serving /\ backlog' = backlog
    BY <1>2 DEF SameDaemonVars, connVars
  <1>4. \A d \in Clients \ {a} : pcs'[d] = pcs[d]
    BY <1>2 DEF OnlyProgram
  <1>5. \A y \in Zygotes :
            /\ found'[y] = found[y] /\ readFrom'[y] = readFrom[y] /\ table'[y] = table[y]
            /\ removed'[y] = removed[y] /\ position'[y] = position[y] /\ pcs'[y] = pcs[y]
    BY <1>2, <1>4, IsClient DEF OnlyLoading
  <1>6. \A b \in Apps \ {a} : table'[b] = table[b]
    BY <1>2 DEF OnlyLoading
  <1>7. /\ z = current /\ conn[a] = "none" /\ req[a] = NoRequest
        /\ conn[z] = "none" \/ (Pending(z) /\ req[z].act = "ReadModules")
    <2>1. z = current /\ (conn[z] = "none" \/ (Pending(z) /\ req[z].act = "ReadModules"))
      BY <1>1, <1>2, Runs DEF Requests
    <2>2. conn[a] = "none" /\ req[a] = NoRequest
      BY <1>1, <1>2, IsClient DEF Requests
    <2> QED BY <2>1, <2>2
  <1>8. pcs[z] = "bare" => table[z] = <<>>
    BY <1>1 DEF Loading, LoopVars
  <1>9. Queue'
    BY <1>1, <1>3, QueueSame
  <1>10. Requests'
    BY <1>1, <1>2, <1>3, <1>4, <1>5, IsClient DEF Requests
  <1>11. Lineage'
    <2>1. \A b \in Apps : pcs'[b] # "unborn" => parent'[b] \in Zygotes
      BY <1>1, <1>2, <1>4, IsClient DEF Lineage
    <2>2. ASSUME NEW b \in Apps, parent'[b] \in Zygotes
          PROVE  /\ pcs'[parent'[b]] \in {"ready", "bare", "dead"}
                 /\ \/ conn'[parent'[b]] = "none"
                    \/ /\ conn'[parent'[b]] \in {"queued", "open"}
                       /\ req'[parent'[b]].act = "ReadModules"
      <3>1. CASE b = a
        <4>1. parent'[b] = z
          BY <1>2, <3>1
        <4> QED BY <1>2, <1>3, <1>5, <1>7, <4>1
      <3>2. CASE b # a
        <4>1. parent'[b] = parent[b]
          BY <1>2, <3>2
        <4>2. /\ pcs[parent[b]] \in {"ready", "bare", "dead"}
              /\ \/ Idle(parent[b])
                 \/ Pending(parent[b]) /\ req[parent[b]].act = "ReadModules"
          BY <1>1, <2>2, <4>1 DEF Lineage
        <4> QED BY <1>3, <1>5, <2>2, <4>1, <4>2
      <3> QED BY <3>1, <3>2
    <2> QED BY <1>1, <1>2, <1>5, <2>1, <2>2 DEF Lineage
  <1>12. Loading'
    <2>1. \A y \in Zygotes : LoopVars(y)'
      BY <1>1, <1>3, <1>5 DEF Loading, LoopVars
    <2>2. \A b \in Apps : pcs'[b] = "unborn" => table'[b] = <<>>
      BY <1>1, <1>2, <1>4, <1>6, IsClient DEF Loading
    <2> QED BY <1>1, <1>3, <1>5, <2>1, <2>2 DEF Loading
  <1>13. InOrder'
    <2> SUFFICES ASSUME NEW y \in Zygotes, Pending(y)', y # current
                 PROVE  Behind(y)' /\ Fresh'
      BY <1>2 DEF InOrder
    <2>1. Behind(y) /\ Fresh
      BY <1>1, <1>3 DEF InOrder
    <2>2. Behind(y)'
      BY <1>2, <1>3, <2>1 DEF Behind
    <2>3. table'[a] = <<>> /\ req'[a].act \notin ByIndex
      BY <1>2, <1>3, <1>7, <1>8, <2>1 DEF Fresh, NoRequest, ByIndex
    <2>4. Fresh'
      BY <1>2, <1>3, <1>5, <1>6, <1>7, <2>1, <2>3 DEF Fresh
    <2> QED BY <2>2, <2>4
  <1>14. OneRemoval'
    BY <1>1, <1>3, OneRemovalKept
  <1>15. InStep'
    <2>1. /\ HasRead(current) /\ HasLoaded(current) /\ HasRemoved(current)
          /\ IsReady(current) /\ HasForked(current)
      BY <1>1, <1>7 DEF InStep
    <2>2. HasRead(current)' /\ HasLoaded(current)' /\ HasRemoved(current)'
      BY <1>2, <1>5, <1>7 DEF HasRead, HasLoaded, HasRemoved
    <2>3. IsReady(current)'
      BY <1>2, <1>3, <1>5, <1>7, <2>1 DEF IsReady, SameDaemon, Same
    <2>4. SameDaemon(current)' => SameDaemon(current)
      BY <1>2, <1>3, <1>5, <1>7 DEF SameDaemon
    <2>5. table'[a] # <<>> /\ SameDaemon(current) => Same(list, table[z])
      BY <1>2, <1>7, <1>8, <2>1 DEF IsReady
    <2>6. HasForked(current)'
      BY <1>2, <1>3, <1>6, <1>7, <2>1, <2>4, <2>5 DEF HasForked, Same
    <2> QED BY <2>2, <2>3, <2>6 DEF InStep
  <1>16. Named'
    <2>1. ASSUME NEW y \in Zygotes, Removing(y)', SameDaemon(y)'
          PROVE  SameModule(y, req[y].of)'
      <3>1. SameModule(y, req[y].of)
        BY <1>1, <1>3, <1>5, <2>1 DEF Named, Removing, SameDaemon
      <3> QED BY <1>3, <3>1 DEF SameModule, Indexed, Entry
    <2>2. ASSUME NEW b \in Apps, Pending(b)', req'[b].act \in ByIndex, parent'[b] = current',
                 SameDaemon(current)'
          PROVE  SameModule(b, req[b].of)'
      <3>1. b # a
        BY <1>3, <1>7, <2>2
      <3>2. SameDaemon(current)
        BY <1>2, <1>3, <1>5, <1>7, <2>2 DEF SameDaemon
      <3>3. SameModule(b, req[b].of)
        BY <1>1, <1>2, <1>3, <1>7, <2>2, <3>1, <3>2 DEF Named
      <3> QED BY <1>3, <3>3 DEF SameModule, Indexed, Entry
    <2> QED BY <2>1, <2>2 DEF Named
  <1> QED BY <1>2, <1>9, <1>10, <1>11, <1>12, <1>13, <1>14, <1>15, <1>16 DEF IInv

-----------------------------------------------------------------------------
(* A process that is killed leaves its requests, and nothing else.         *)
LEMMA KillAppKeeps ==
    ASSUME IInv, NEW a \in Apps, Kill(a)
    PROVE  TypeOK' /\ IInv'
  <1>1. TypeOK /\ a \notin Zygotes
    BY IsClient DEF IInv
  <1>2. /\ TypeOK'
        /\ pcs[a] # "unborn" /\ pcs'[a] = "dead" /\ OnlyProgram(a)
        /\ current' = current /\ parent' = parent /\ SameDaemonVars
        /\ OnlyLoading(a) /\ table'[a] = <<>>
        /\ \/ Waiting(a) /\ UNCHANGED connVars
           \/ /\ ~Waiting(a) /\ OnlyConn(a) /\ Cleared(a)
              /\ serving' = serving /\ backlog' = backlog
    BY <1>1, KillDoes
  <1>3. CASE UNCHANGED connVars
    <2>1. /\ serving' = serving /\ backlog' = backlog /\ OnlyConn(a)
          /\ conn'[a] = conn[a] /\ req'[a] = req[a] /\ wrote'[a] = wrote[a]
      BY <1>3 DEF connVars, OnlyConn
    <2> QED BY <1>2, <2>1, AppMoves
  <1>4. CASE ~UNCHANGED connVars
    BY <1>2, <1>4, AppMoves
  <1> QED BY <1>3, <1>4

LEMMA KillZygoteKeeps ==
    ASSUME IInv, NEW z \in Zygotes, Kill(z)
    PROVE  TypeOK' /\ IInv'
  <1>1. /\ Queue /\ Requests /\ Lineage /\ Loading /\ InOrder /\ OneRemoval /\ InStep /\ Named
        /\ TypeOK /\ z \in Clients
    BY IsClient DEF IInv
  <1>2. /\ TypeOK'
        /\ pcs[z] \notin {"unborn", "dead"} /\ z = current
        /\ pcs'[z] = "dead" /\ OnlyProgram(z) /\ current' = current /\ parent' = parent
        /\ SameDaemonVars /\ OnlyLoading(z) /\ readFrom' = readFrom /\ table'[z] = <<>>
        /\ found'[z] = <<>> /\ removed'[z] = 0 /\ position'[z] = 1
        /\ \/ Waiting(z) /\ UNCHANGED connVars
           \/ /\ ~Waiting(z) /\ OnlyConn(z) /\ Cleared(z)
              /\ serving' = serving /\ backlog' = backlog
    BY <1>1, KillDoes
  <1>3. /\ serving' = serving /\ backlog' = backlog
        /\ up' = up /\ started' = started /\ list' = list
        /\ \/ conn'[z] = conn[z] /\ req'[z] = req[z] /\ wrote'[z] = wrote[z] /\ Waiting(z)
           \/ conn'[z] = "none" /\ req'[z] = NoRequest /\ wrote'[z] = 0 /\ ~Waiting(z)
    BY <1>2 DEF SameDaemonVars, connVars, Cleared
  <1>4. \A d \in Clients \ {z} : /\ conn'[d] = conn[d] /\ req'[d] = req[d]
                                 /\ wrote'[d] = wrote[d] /\ answer'[d] = answer[d]
                                 /\ pcs'[d] = pcs[d]
    BY <1>2 DEF OnlyConn, OnlyProgram, connVars
  <1>5. \A y \in Zygotes \ {z} :
            /\ found'[y] = found[y] /\ table'[y] = table[y]
            /\ removed'[y] = removed[y] /\ position'[y] = position[y]
    BY <1>2 DEF OnlyLoading
  <1>6. \A a \in Apps : table'[a] = table[a] /\ a # z /\ a \in Clients
    BY <1>2, IsClient DEF OnlyLoading
  <1>7. Queue'
    <2>1. CASE Waiting(z)
      BY <1>1, <1>3, <1>4, <2>1, QueueSame
    <2>2. CASE ~Waiting(z)
      BY <1>1, <1>3, <1>4, <2>2, QueueOther
    <2> QED BY <2>1, <2>2
  <1>8. Requests'
    BY <1>1, <1>2, <1>3, <1>4, IsClient DEF Requests, NoRequest
  <1>9. Lineage'
    BY <1>1, <1>2, <1>3, <1>4, <1>6, IsClient DEF Lineage
  <1>10. Loading'
    <2>1. LoopVars(z)'
      BY <1>1, <1>2, <1>3 DEF Loading, LoopVars
    <2>2. \A y \in Zygotes \ {z} : LoopVars(y)'
      BY <1>1, <1>2, <1>3, <1>4, <1>5, IsClient DEF Loading, LoopVars
    <2> QED BY <1>1, <1>2, <1>3, <1>4, <1>6, <2>1, <2>2, IsClient DEF Loading
  <1>11. \A d \in Zygotes \cup Apps : Pending(d)' => Pending(d) /\ req'[d] = req[d]
    BY <1>3, <1>4, IsClient
  <1>12. InOrder'
    BY <1>1, <1>2, <1>3, <1>4, <1>6, <1>11, InOrderKept
  <1>13. OneRemoval'
    BY <1>1, <1>11, OneRemovalKept
  <1>14. InStep'
    <2>1. HasRead(current)' /\ HasLoaded(current)' /\ HasRemoved(current)' /\ IsReady(current)'
      BY <1>2 DEF HasRead, HasLoaded, HasRemoved, IsReady
    <2>2. HasForked(current)
      BY <1>1, <1>2 DEF InStep
    <2>3. HasForked(current)'
      BY <1>2, <1>3, <1>6, <2>2 DEF HasForked, SameDaemon, Same
    <2> QED BY <2>1, <2>3 DEF InStep
  <1>15. Named'
    BY <1>1, <1>2, <1>11, NamedKept
  <1> QED BY <1>2, <1>7, <1>8, <1>9, <1>10, <1>12, <1>13, <1>14, <1>15 DEF IInv

LEMMA AppAsksKeeps ==
    ASSUME IInv, TypeOK', NEW a \in Apps, AppAsks(a)
    PROVE  IInv'
  <1>1. PICK act \in {"GetProcessFlags", "UpdateMountNamespace"} : Connect(a, act, 0, Nobody)
    BY DEF AppAsks
  <1>2. /\ pcs[a] # "unborn" /\ pcs'[a] # "unborn" /\ OnlyProgram(a)
        /\ current' = current /\ parent' = parent /\ SameDaemonVars /\ SameLoading
    BY DEF AppAsks, OnlyProgram, SameDaemonVars, SameLoading, loadVars, progVars, daemonVars
  <1>3. act \notin ByIndex
    BY DEF ByIndex
  <1> QED BY <1>1, <1>2, <1>3, AppConnects

LEMMA ModuleAsksKeeps ==
    ASSUME IInv, NEW a \in Apps, ModuleAsks(a)
    PROVE  TypeOK' /\ IInv'
  <1>1. TypeOK /\ Typing
    BY TypingFact DEF IInv
  <1>2. /\ TypeOK'
        /\ pcs[a] = "modules" /\ pcs'[a] = "asked" /\ OnlyProgram(a)
        /\ current' = current /\ parent' = parent
        /\ UNCHANGED loadVars /\ UNCHANGED daemonVars
    BY <1>1, ModuleAsksDoes
  <1>3. PICK i \in 1 .. Len(table[a]), act \in ByIndex : Connect(a, act, i - 1, table[a][i])
    BY <1>1, ModuleAsksDoes
  <1>4. SameDaemonVars /\ SameLoading
    BY <1>2 DEF SameDaemonVars, SameLoading, loadVars, daemonVars
  <1>5. i - 1 \in Nat /\ (i - 1) + 1 = i
    OBVIOUS
  <1>6. (i - 1) + 1 \in 1 .. Len(table[a]) /\ table[a][i] = table[a][(i - 1) + 1]
    BY <1>5
  <1> QED BY <1>2, <1>3, <1>4, <1>5, <1>6, AppConnects

-----------------------------------------------------------------------------
LEMMA InitKeeps == ASSUME Init PROVE TypeOK /\ IInv
  <1>1. TypeOK
    BY InitTyped
  <1>2. /\ up /\ started = 0 /\ serving = Nobody /\ backlog = <<>> /\ current = Nobody
        /\ \A c \in Clients : conn[c] = "none" /\ req[c] = NoRequest /\ wrote[c] = 0
        /\ \A z \in Zygotes : /\ pcs[z] = "unborn" /\ table[z] = <<>> /\ found[z] = <<>>
                              /\ readFrom[z] = 0 /\ removed[z] = 0 /\ position[z] = 1
        /\ \A a \in Apps : parent[a] = Nobody /\ table[a] = <<>>
    BY IsClient DEF Init
  <1>3. current \notin Zygotes
    BY <1>2, IsClient
  <1>4. \A c \in Clients : ~Pending(c)
    BY <1>2
  <1>5. Queue
    BY <1>2, <1>4, IsClient DEF Queue
  <1>6. Requests
    BY <1>2, IsClient DEF Requests, NoRequest
  <1>7. Lineage
    <2>1. \A a \in Apps : pcs[a] = "unborn" /\ parent[a] \notin Zygotes
      BY <1>2, <1>3, IsClient DEF Init
    <2> QED BY <1>2, <1>3, <2>1, IsClient DEF Lineage
  <1>8. Loading
    BY <1>2, IsClient DEF Loading, LoopVars
  <1>9. InOrder /\ OneRemoval /\ InStep /\ Named
    BY <1>3, <1>4, IsClient DEF InOrder, OneRemoval, Removing, InStep, Named
  <1> QED BY <1>1, <1>5, <1>6, <1>7, <1>8, <1>9 DEF IInv

LEMMA DaemonKeeps == ASSUME IInv, DaemonStep PROVE TypeOK' /\ IInv'
  <1>1. TypeOK
    BY DEF IInv
  <1>2. CASE Accept
    BY <1>1, <1>2, AcceptTyped, AcceptKeeps
  <1>3. CASE ActionUnreadable
    BY <1>1, <1>3, ExitTyped, ExitKeeps DEF ActionUnreadable
  <1>4. CASE \E c \in Clients : HandleClient(c)
    <2> PICK c \in Clients : HandleClient(c)
      BY <1>4
    <2> QED BY <1>1, HandleClientDoes, ServedKeeps, RemovesKeeps
  <1> QED BY <1>2, <1>3, <1>4 DEF DaemonStep

LEMMA ZygoteKeeps ==
    ASSUME IInv, NEW z \in Zygotes, ZygoteStep(z)
    PROVE  TypeOK' /\ IInv'
  <1>1. TypeOK
    BY DEF IInv
  <1>2. CASE ReadAgain(z)
    <2>1. TypeOK' /\ Closes(z) /\ pcs[z] = "read" /\ pcs' = pcs
      BY <1>1, <1>2, ReadAgainDoes
    <2> QED BY <2>1, ReadEndsKeeps
  <1>3. CASE ReadFails(z)
    <2>1. TypeOK' /\ Closes(z) /\ pcs[z] = "read" /\ pcs'[z] = "bare"
      BY <1>1, <1>3, ReadFailsDoes
    <2> QED BY <2>1, ReadEndsKeeps
  <1> QED
    BY <1>2, <1>3, AskRestartKeeps, AskModulesKeeps, ReadSucceedsKeeps, ModuleLoadsKeeps,
       ModuleFailsKeeps, RemovalEndsKeeps, LoadingEndsKeeps
       DEF ZygoteStep

LEMMA AppKeeps ==
    ASSUME IInv, NEW a \in Apps, AppStep(a) \/ ModuleAsks(a)
    PROVE  TypeOK' /\ IInv'
  <1>1. TypeOK
    BY DEF IInv
  <1>2. CASE AskFlags(a) \/ AskNamespace(a)
    BY <1>1, <1>2, AppAsksDoes, AppAsksKeeps
  <1>3. CASE HasFlags(a) \/ NoFlags(a) \/ NamespaceEnds(a) \/ ModuleAnswered(a)
    BY <1>1, <1>3, AppClosesDoes, AppClosesKeeps
  <1>4. CASE ModulesRan(a)
    BY <1>1, <1>4, ModulesRanDoes, AppRanKeeps
  <1>5. CASE ModuleAsks(a)
    BY <1>5, ModuleAsksKeeps
  <1> QED BY <1>2, <1>3, <1>4, <1>5 DEF AppStep

LEMMA NextKeeps == ASSUME IInv, [Next]_vars PROVE TypeOK' /\ IInv'
  <1>1. TypeOK
    BY DEF IInv
  <1>2. CASE DaemonStep
    BY <1>2, DaemonKeeps
  <1>3. CASE InvalidateCleanNs
    <2>1. TypeOK'
      BY <1>1, <1>3, InvalidateTyped
    <2>2. UNCHANGED <<connVars, loadVars, progVars>> /\ SameDaemonVars
      BY <1>3 DEF InvalidateCleanNs, Untouched, SameDaemonVars
    <2> QED BY <2>1, <2>2, QuietKeeps
  <1>4. CASE DaemonKilled
    BY <1>1, <1>4, ExitTyped, ExitKeeps DEF DaemonKilled
  <1>5. CASE Respawn
    BY <1>1, <1>5, RespawnTyped, RespawnKeeps
  <1>6. CASE \E z \in Zygotes : \/ StartZygote(z) \/ ZygoteStep(z) \/ ReadTimesOut(z)
                               \/ \E a \in Apps : Fork(z, a)
    BY <1>6, StartZygoteKeeps, ZygoteKeeps, ReadTimesOutKeeps, ForkKeeps
  <1>7. CASE \E a \in Apps : AppStep(a) \/ ModuleAsks(a)
    BY <1>7, AppKeeps
  <1>8. CASE \E c \in Zygotes \cup Apps : Write(c)
    BY <1>8, WriteKeeps
  <1>9. CASE \E a \in Apps : CompanionAnswers(a)
    <2> PICK a \in Apps : CompanionAnswers(a)
      BY <1>9
    <2>1. TypeOK' /\ Acknowledged(a)
      BY <1>1, IsClient, CompanionAnswersDoes
    <2> QED BY <2>1, AcknowledgedKeeps
  <1>10. CASE \E m \in Modules : CompanionDies(m)
    <2> PICK m \in Modules : CompanionDies(m)
      BY <1>10
    <2>1. TypeOK'
      BY <1>1, CompanionDiesTyped
    <2>2. UNCHANGED <<connVars, loadVars, progVars>> /\ SameDaemonVars
      BY DEF CompanionDies, SameDaemonVars
    <2> QED BY <2>1, <2>2, QuietKeeps
  <1>11. CASE \E c \in Zygotes \cup Apps : Kill(c)
    BY <1>11, KillAppKeeps, KillZygoteKeeps
  <1>12. CASE UNCHANGED vars
    <2>1. /\ UNCHANGED daemonVars /\ UNCHANGED connVars
          /\ UNCHANGED loadVars /\ UNCHANGED progVars
      BY <1>12 DEF vars
    <2>2. TypeOK'
      BY <1>1, <2>1, TypeParts, TypePartsNext, SameDaemonTyped, SameConnTyped, SameLoadTyped,
         SameProgTyped
    <2>3. SameDaemonVars
      BY <2>1 DEF daemonVars, SameDaemonVars
    <2> QED BY <2>1, <2>2, <2>3, QuietKeeps
  <1> QED
    BY <1>2, <1>3, <1>4, <1>5, <1>6, <1>7, <1>8, <1>9, <1>10, <1>11, <1>12 DEF Next

-----------------------------------------------------------------------------
(* The invariant, of every behaviour.                                      *)
LEMMA Invariance == Spec => []IInv
  <1>1. Init => IInv
    BY InitKeeps
  <1>2. IInv /\ [Next]_vars => IInv'
    BY NextKeeps
  <1> QED BY <1>1, <1>2, PTL DEF Spec

(* The variables of the daemon and of its clients have their types, for    *)
(* every number of zygotes, apps, modules, daemons and kills: load_modules' *)
(* lists hold modules, and no index or counter of load_modules_only is     *)
(* negative (rezygiskd/src/zygiskd.rs, loader/src/load_modules.rs).        *)
THEOREM TypeCorrect == Spec => []TypeOK
  <1>1. IInv => TypeOK
    BY DEF IInv
  <1> QED BY <1>1, Invariance, PTL

(* A module that failed to load is the one the daemon drops: the index     *)
(* load_modules_only sends (its loop index less what was removed before)   *)
(* names that module in the list at the time the daemon serves the         *)
(* request, also when the zygote was killed and another runs by then.      *)
THEOREM RemovalsAreOwn == Spec => []RemovesOwn
  <1>1. IInv => RemovesOwn
    <2> SUFFICES ASSUME IInv, NEW z \in Zygotes, Asks(z, {"RemoveModule"}),
                        readFrom[z] = started
                 PROVE  SameModule(z, req[z].of)
      BY DEF RemovesOwn
    <2>1. Queue /\ Named /\ z \in Clients
      BY IsClient DEF IInv
    <2>2. up /\ serving = z /\ req[z].act = "RemoveModule"
      BY DEF Asks
    <2>3. Removing(z) /\ SameDaemon(z)
      BY <2>1, <2>2 DEF Queue, Removing, SameDaemon
    <2> QED BY <2>1, <2>3 DEF Named
  <1> QED BY <1>1, Invariance, PTL

(* A process gets the companion and the directory of the module it means:  *)
(* the index it sends, of its copy of the zygote's table, names that       *)
(* module in the list of the daemon the zygote read, whatever failed to    *)
(* load and whoever was killed (handle_client's RequestCompanionSocket and *)
(* GetModuleDir, rezygisk_connect_companion and rezygisk_get_module_dir).  *)
THEOREM CompanionsAreOwn == Spec => []CompanionIsOwn
  <1>1. IInv => CompanionIsOwn
    <2> SUFFICES ASSUME IInv, NEW a \in Apps, Asks(a, ByIndex), parent[a] = current,
                        readFrom[current] = started
                 PROVE  SameModule(a, req[a].of)
      BY DEF CompanionIsOwn, IInv
    <2>1. Queue /\ Requests /\ Lineage /\ Named /\ a \in Clients
      BY IsClient DEF IInv
    <2>2. up /\ serving = a /\ req[a].act \in ByIndex
      BY DEF Asks
    <2>3. conn[a] = "open"
      BY <2>1, <2>2 DEF Queue
    <2>4. current \in Zygotes
      BY <2>1, <2>3 DEF Requests, Lineage
    <2>5. SameDaemon(current)
      BY <2>2 DEF SameDaemon
    <2> QED BY <2>1, <2>2, <2>3, <2>4, <2>5 DEF Named
  <1> QED BY <1>1, Invariance, PTL
=============================================================================
