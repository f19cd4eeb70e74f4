-------------------------------- MODULE Daemon --------------------------------
(***************************************************************************)
(* The daemon of one ABI (crates/rezygiskd) and the processes that talk to *)
(* it: each zygote loads the daemon's modules into a table of its own and  *)
(* asks the daemon to remove those that fail; the apps it forks ask for    *)
(* their flags, a clean mount namespace, and, by table index, a module's   *)
(* companion or directory (crates/loader/src/daemon_client.rs).            *)
(*                                                                         *)
(* The daemon is one thread: it accepts a connection, reads the request,   *)
(* serves it and accepts the next.  A client connects, writes the action   *)
(* byte, writes the arguments and reads the answer, and may be killed      *)
(* between any two of these.  The monitor starts a new daemon when the old *)
(* one exits.                                                              *)
(*                                                                         *)
(* The tracer and the invalidate-ns command write one byte, wait for no    *)
(* answer and are not killed here: the tracer's connect, write and close   *)
(* are one step, and the command, which nothing else waits for, connects   *)
(* when the daemon takes it up.                                            *)
(***************************************************************************)
EXTENDS Naturals, Sequences, FiniteSets

CONSTANTS
    Modules,        \* the modules on disk
    Dir,            \* the order in which load_modules finds them
    MayFail,        \* modules whose loading into a zygote may fail
    NoEntry,        \* modules without zygisk_companion_entry
    Zygotes,        \* zygotes, started one after another
    Apps,           \* processes forked by a zygote
    Tracer,         \* the tracer that announces a zygote's restart
    Nobody,         \* no client, no zygote, no module
    Denylisted,     \* apps on the denylist of the root implementation
    MaxRespawns,    \* bound: daemons the monitor starts after the first
    MaxKills,       \* bound: zygotes and apps killed from outside
    MaxAttempts     \* connection attempts of rezygiskd_read_modules

Clients == Zygotes \cup Apps \cup {Tracer}

ASSUME DirAssumption ==
    /\ Dir \in Seq(Modules)
    /\ \A i, j \in 1 .. Len(Dir) : Dir[i] = Dir[j] => i = j
ASSUME ModuleAssumption == MayFail \subseteq Modules /\ NoEntry \subseteq Modules
ASSUME BoundAssumption ==
    /\ MaxAttempts \in Nat \ {0}
    /\ {MaxRespawns, MaxKills} \subseteq Nat
ASSUME ClientAssumption ==
    /\ Denylisted \subseteq Apps
    /\ Apps \cap Zygotes = {}
    /\ Nobody \notin Clients
    /\ Tracer \notin Apps \cup Zygotes

(* Requests that carry arguments, and all requests.                        *)
WithArguments == {"GetProcessFlags", "RequestCompanionSocket", "GetModuleDir",
                  "UpdateMountNamespace", "RemoveModule"}
Actions == WithArguments \cup {"ReadModules", "ZygoteRestart"}

VARIABLES
    up,         \* the daemon runs and listens
    started,    \* how many daemons were started before this one
    list,       \* context.modules
    companion,  \* Module::companion: none (or of a dead process), noEntry, live
    first,      \* first_process
    clean,      \* NS_FD_CACHE.clean holds a namespace
    serving,    \* the client of handle_client
    backlog,    \* connections not accepted yet
    conn,       \* a client's connection
    req,        \* its request: action, index, and the module the client means
    wrote,      \* how much of the request is written: 0, the action, all
    answer,     \* the answer to it
    pcs,        \* where a client is in its program
    current,    \* the last zygote started, or Nobody
    found,      \* rezygiskd_read_modules' result in a zygote
    readFrom,   \* the daemon that gave it
    table,      \* ZYGISK_MODULES of a process: copied by fork
    removed,    \* load_modules_only's `removed`
    position,   \* load_modules_only's loop index
    refused,    \* connection attempts of ReadModules that were refused
    parent,     \* the zygote that forked an app
    kills       \* processes killed so far

daemonVars == <<up, started, list, companion, first, clean>>
connVars == <<serving, backlog, conn, req, wrote, answer>>
loadVars == <<found, readFrom, table, removed, position, refused>>
progVars == <<pcs, current, parent, kills>>
vars == <<daemonVars, connVars, loadVars, progVars>>

ZygotePcs == {"unborn", "restart", "read", "load", "remove", "ready", "bare", "dead"}
AppPcs == {"unborn", "flags", "retry", "first", "deny", "modules", "asked", "revert", "done", "dead"}
Says(word) == [said |-> word, modules |-> <<>>, from |-> 0]
NoRequest == [act |-> "none", index |-> 0, of |-> Nobody]
Answers == {"nothing", "firstStarted", "flags", "list", "no", "yes", "directory", "namespace"}
Dead(c) == pcs[c] = "dead"
Gone(c) ==    \* nobody holds the client's end any more
    c = Tracer \/ pcs[c] \in {"bare", "dead"}

-----------------------------------------------------------------------------
(* load_modules: every module on disk, in directory order.                 *)
LoadModules == Dir

Init ==
    /\ up = TRUE /\ started = 0
    /\ list = LoadModules
    /\ companion = [m \in Modules |-> "none"]
    /\ first = TRUE
    /\ clean = FALSE
    /\ serving = Nobody /\ backlog = <<>>
    /\ conn = [c \in Clients |-> "none"]
    /\ req = [c \in Clients |-> NoRequest]
    /\ wrote = [c \in Clients |-> 0]
    /\ answer = [c \in Clients |-> Says("nothing")]
    /\ pcs = [c \in Clients |-> IF c = Tracer THEN "done" ELSE "unborn"]
    /\ current = Nobody
    /\ found = [z \in Zygotes |-> <<>>]
    /\ readFrom = [z \in Zygotes |-> 0]
    /\ table = [c \in Zygotes \cup Apps |-> <<>>]
    /\ removed = [z \in Zygotes |-> 0]
    /\ position = [z \in Zygotes |-> 1]
    /\ refused = [z \in Zygotes |-> 0]
    /\ parent = [a \in Apps |-> Nobody]
    /\ kills = 0

-----------------------------------------------------------------------------
(* A client's side of a request.  What connect() finds decides: a running  *)
(* daemon queues the connection, otherwise it is refused.                  *)
Waiting(c) == conn[c] \in {"queued", "open", "handed"}
Idle(c) == conn[c] = "none"

Connect(c, act, index, of) ==
    /\ Idle(c) /\ ~Dead(c)
    /\ IF up
       THEN /\ conn' = [conn EXCEPT ![c] = "queued"]
            /\ backlog' = Append(backlog, c)
       ELSE /\ conn' = [conn EXCEPT ![c] = "refused"]
            /\ UNCHANGED backlog
    /\ req' = [req EXCEPT ![c] = [act |-> act, index |-> index, of |-> of]]
    /\ UNCHANGED <<serving, wrote, answer>>

(* The client writes the action byte, then the arguments.                  *)
Complete(c) == wrote[c] = IF req[c].act \in WithArguments THEN 2 ELSE 1

Write(c) ==
    /\ conn[c] \in {"queued", "open"} /\ ~Dead(c) /\ ~Complete(c)
    /\ wrote' = [wrote EXCEPT ![c] = @ + 1]
    /\ UNCHANGED <<serving, backlog, conn, req, answer, daemonVars, loadVars, progVars>>

(* The client has the answer, or an error, and closes the connection.      *)
Answered(c) == conn[c] = "answered"
Failed(c) == conn[c] \in {"refused", "reset"}
Close(c, next) ==
    /\ conn' = [conn EXCEPT ![c] = "none"]
    /\ req' = [req EXCEPT ![c] = NoRequest]
    /\ wrote' = [wrote EXCEPT ![c] = 0]
    /\ answer' = [answer EXCEPT ![c] = Says("nothing")]
    /\ serving' = next /\ UNCHANGED backlog

-----------------------------------------------------------------------------
(* The daemon.  accept4 of zygiskd_start. *)
Accept ==
    /\ up /\ serving = Nobody /\ backlog # <<>>
    /\ serving' = Head(backlog)
    /\ backlog' = Tail(backlog)
    /\ conn' = [conn EXCEPT ![Head(backlog)] = "open"]
    /\ UNCHANGED <<req, wrote, answer, daemonVars, loadVars, progVars>>

(* handle_client returned and the connection is closed: the client reads   *)
(* the answer, or end of file, if it is there to read it.                  *)
Ends(c, how, next) ==
    /\ conn' = [conn EXCEPT ![c] = how]
    /\ serving' = next
    /\ UNCHANGED <<backlog, req, wrote>>
Reply(c, a) ==
    IF Gone(c) THEN Close(c, Nobody)
    ELSE Ends(c, "answered", Nobody) /\ answer' = [answer EXCEPT ![c] = a]
HangUp(c) ==
    IF Gone(c) THEN Close(c, Nobody)
    ELSE Ends(c, "reset", Nobody) /\ UNCHANGED answer

Serves(c, act) ==
    /\ up /\ serving = c /\ Complete(c)
    /\ req[c].act = act

(* The exit of the daemon resets every connection it has not answered.     *)
Left(c) == Gone(c) /\ conn[c] \in {"queued", "open"}
Exit ==
    /\ up' = FALSE
    /\ serving' = Nobody /\ backlog' = <<>>
    /\ conn' = [c \in Clients |->
           IF conn[c] \notin {"queued", "open"} THEN conn[c] ELSE IF Gone(c) THEN "none" ELSE "reset"]
    /\ req' = [c \in Clients |-> IF Left(c) THEN NoRequest ELSE req[c]]
    /\ wrote' = [c \in Clients |-> IF Left(c) THEN 0 ELSE wrote[c]]
    /\ companion' = [m \in Modules |-> "none"]
    /\ list' = <<>>
    /\ clean' = FALSE
    /\ UNCHANGED <<answer, started, first, loadVars, progVars>>

(* The action byte cannot be read: ClientError::Fatal.                     *)
ActionUnreadable ==
    /\ up
    /\ \E c \in Clients : serving = c /\ Dead(c) /\ wrote[c] = 0
    /\ Exit

(* Mutant: the read waits for a client that is gone. *)
ArgumentsAwaited(c) == FALSE /\ c \in Clients /\ UNCHANGED vars

(* The arguments cannot be read: ClientError::MidFrame.                    *)
ArgumentsUnreadable(c) ==
    /\ up /\ serving = c /\ Dead(c) /\ wrote[c] = 1 /\ ~Complete(c)
    /\ HangUp(c)
    /\ UNCHANGED <<daemonVars, loadVars, progVars>>

Untouched == UNCHANGED <<up, started, loadVars, progVars>>

ZygoteRestart(c) ==
    /\ Serves(c, "ZygoteRestart")
    /\ companion' = [m \in Modules |-> IF companion[m] = "noEntry" THEN "noEntry" ELSE "none"]
    /\ clean' = FALSE
    /\ Reply(c, Says("nothing"))
    /\ UNCHANGED <<list, first>> /\ Untouched

(* `zygisk-ptrace invalidate-ns`, a client of its own: between two requests *)
(* of others.                                                              *)
InvalidateCleanNs ==
    /\ up /\ serving = Nobody
    /\ clean /\ clean' = FALSE
    /\ UNCHANGED <<list, companion, first, connVars>> /\ Untouched

(* The flags are computed, and first_process consumed, before the answer   *)
(* is written.                                                             *)
GetProcessFlags(c) ==
    /\ Serves(c, "GetProcessFlags")
    /\ first' = FALSE
    /\ Reply(c, Says(IF first THEN "firstStarted" ELSE "flags"))
    /\ UNCHANGED <<list, companion, clean>> /\ Untouched

ReadModules(c) ==
    /\ Serves(c, "ReadModules")
    /\ Reply(c, [said |-> "list", modules |-> list, from |-> started])
    /\ UNCHANGED <<list, companion, first, clean>> /\ Untouched

(* A wire index is zero-based. *)
Indexed(c) == req[c].index < Len(list)
Entry(c) == list[req[c].index + 1]

BadIndex(c) ==
    /\ \E act \in {"RequestCompanionSocket", "GetModuleDir", "RemoveModule"} : Serves(c, act)
    /\ ~Indexed(c)
    /\ Reply(c, Says("no"))
    /\ UNCHANGED <<list, companion, first, clean>> /\ Untouched

(* The client's socket goes to the companion, which answers it itself.     *)
HandOver(c) ==
    /\ serving' = Nobody
    /\ conn' = [conn EXCEPT ![c] = "handed"]
    /\ UNCHANGED <<backlog, req, wrote, answer>>

RequestCompanionSocket(c) ==
    /\ Serves(c, "RequestCompanionSocket") /\ Indexed(c)
    /\ LET m == Entry(c)
           Becomes(v) == companion' = [companion EXCEPT ![m] = v]
       IN  \/ /\ companion[m] = "live"
              /\ HandOver(c) /\ UNCHANGED companion
           \/ \* it died after check_unix_socket: the send fails
              /\ companion[m] = "live"
              /\ Reply(c, Says("no")) /\ Becomes("none")
           \/ /\ companion[m] # "live" /\ m \notin NoEntry
              /\ HandOver(c) /\ Becomes("live")
           \/ /\ companion[m] # "live" /\ m \in NoEntry
              /\ Reply(c, Says("no")) /\ Becomes("noEntry")
           \/ \* spawn_companion failed
              /\ companion[m] # "live"
              /\ Reply(c, Says("no")) /\ Becomes("none")
    /\ UNCHANGED <<list, first, clean>> /\ Untouched

GetModuleDir(c) ==
    /\ Serves(c, "GetModuleDir") /\ Indexed(c)
    /\ \/ Reply(c, Says("directory"))
       \/ HangUp(c)    \* the directory cannot be opened or sent
    /\ UNCHANGED <<list, companion, first, clean>> /\ Untouched

(* save_mns_fd: the cached clean namespace, or one taken from the caller.   *)
(* Taking it may fail (the fork, the unmounts), and does when the caller is *)
(* gone.                                                                   *)
UpdateMountNamespace(c) ==
    /\ Serves(c, "UpdateMountNamespace")
    /\ \/ clean /\ Reply(c, Says("namespace")) /\ UNCHANGED clean
       \/ ~clean /\ ~Dead(c) /\ Reply(c, Says("namespace")) /\ clean' = TRUE
       \/ ~clean /\ Reply(c, Says("no")) /\ UNCHANGED clean
    /\ UNCHANGED <<list, companion, first>> /\ Untouched

(* Vec::remove: every later module moves one index down. *)
Without(s, i) == SubSeq(s, 1, i - 1) \o SubSeq(s, i + 1, Len(s))

RemoveModule(c) ==
    /\ Serves(c, "RemoveModule") /\ Indexed(c)
    /\ companion' = [companion EXCEPT ![Entry(c)] = "none"]
    /\ list' = Without(list, req[c].index + 1)
    /\ Reply(c, Says("yes"))
    /\ UNCHANGED <<first, clean>> /\ Untouched

(* A request the daemon reads to its end and then serves.                  *)
HandleClient(c) ==
    \/ ZygoteRestart(c) \/ GetProcessFlags(c) \/ ReadModules(c)
    \/ BadIndex(c) \/ RequestCompanionSocket(c) \/ GetModuleDir(c)
    \/ UpdateMountNamespace(c) \/ RemoveModule(c) \/ ArgumentsUnreadable(c)

(* companion_entry: the companion acknowledges a client, or ends first.    *)
CompanionAnswers(c) ==
    /\ conn[c] = "handed"
    /\ IF Dead(c)
       THEN Close(c, serving)
       ELSE \/ Ends(c, "answered", serving) /\ answer' = [answer EXCEPT ![c] = Says("yes")]
            \/ Ends(c, "reset", serving) /\ UNCHANGED answer
    /\ UNCHANGED <<daemonVars, loadVars, progVars>>

CompanionDies(m) ==
    /\ companion[m] = "live"
    /\ companion' = [companion EXCEPT ![m] = "none"]
    /\ UNCHANGED <<up, started, list, first, clean, connVars, loadVars, progVars>>

(* The daemon is killed; the monitor starts another, which reads the       *)
(* modules directory again.                                                *)
DaemonKilled == up /\ started < MaxRespawns /\ Exit

Respawn ==
    /\ ~up /\ started < MaxRespawns
    /\ up' = TRUE /\ started' = started + 1
    /\ list' = LoadModules
    /\ first' = TRUE
    /\ UNCHANGED <<companion, clean, connVars, loadVars, progVars>>

-----------------------------------------------------------------------------
(* A zygote.  The tracer of one that is not the first may send             *)
(* ZygoteRestart before it injects it.                                     *)
Goes(c, pc) == pcs' = [pcs EXCEPT ![c] = pc]
Elsewhere == UNCHANGED <<daemonVars, current, parent, kills>>

StartZygote(z) ==
    /\ pcs[z] = "unborn"
    /\ current # Nobody => Dead(current)
    /\ \E pc \in {"read"} \cup (IF current = Nobody THEN {} ELSE {"restart"}) : Goes(z, pc)
    /\ current' = z
    /\ UNCHANGED <<daemonVars, connVars, loadVars, parent, kills>>

(* rezygiskd_zygote_restart: nothing is sent to a daemon that is not there. *)
AskRestart(z) ==
    /\ pcs[z] = "restart" /\ Idle(Tracer)
    /\ IF up
       THEN /\ conn' = [conn EXCEPT ![Tracer] = "queued"]
            /\ backlog' = Append(backlog, Tracer)
            /\ req' = [req EXCEPT ![Tracer] = [NoRequest EXCEPT !.act = "ZygoteRestart"]]
            /\ wrote' = [wrote EXCEPT ![Tracer] = 1]
            /\ UNCHANGED <<serving, answer>>
       ELSE UNCHANGED connVars
    /\ Goes(z, "read")
    /\ UNCHANGED loadVars /\ Elsewhere

AskModules(z) ==
    /\ pcs[z] = "read" /\ Connect(z, "ReadModules", 0, Nobody)
    /\ UNCHANGED <<loadVars, progVars, daemonVars>>

(* Mutant: the attempts are not counted. *)
ReadAgainForEver(z) ==
    /\ pcs[z] = "read" /\ conn[z] = "refused"
    /\ Close(z, serving)
    /\ UNCHANGED <<loadVars, progVars, daemonVars>>

(* rezygiskd_read_modules retries a refused connection, and nothing else.  *)
ReadAgain(z) ==
    /\ pcs[z] = "read" /\ conn[z] = "refused" /\ refused[z] + 1 < MaxAttempts
    /\ refused' = [refused EXCEPT ![z] = @ + 1]
    /\ Close(z, serving)
    /\ UNCHANGED <<found, readFrom, table, removed, position, progVars, daemonVars>>

ReadFails(z) ==
    /\ pcs[z] = "read"
    /\ conn[z] = "reset" \/ (conn[z] = "refused" /\ refused[z] + 1 = MaxAttempts)
    /\ refused' = [refused EXCEPT ![z] = 0]
    /\ Close(z, serving) /\ Goes(z, "bare")
    /\ UNCHANGED <<found, readFrom, table, removed, position>> /\ Elsewhere

(* No answer within the second that SO_RCVTIMEO allows, or not the whole    *)
(* list: the zygote closes its end and goes on without modules, and the     *)
(* daemon still has the request to serve.                                  *)
ReadTimesOut(z) ==
    /\ pcs[z] = "read" /\ conn[z] \in {"queued", "open"} /\ Complete(z)
    /\ refused' = [refused EXCEPT ![z] = 0]
    /\ Goes(z, "bare")
    /\ UNCHANGED <<connVars, found, readFrom, table, removed, position>> /\ Elsewhere

ReadSucceeds(z) ==
    /\ pcs[z] = "read" /\ Answered(z)
    /\ found' = [found EXCEPT ![z] = answer[z].modules]
    /\ readFrom' = [readFrom EXCEPT ![z] = answer[z].from]
    /\ refused' = [refused EXCEPT ![z] = 0]
    /\ Close(z, serving) /\ Goes(z, "load")
    /\ UNCHANGED <<table, removed, position>> /\ Elsewhere

(* load_modules_only: one iteration of its loop.  A module that does not   *)
(* load is removed from the daemon, at its index among those that remain.  *)
ModuleLoads(z) ==
    /\ pcs[z] = "load" /\ position[z] <= Len(found[z])
    /\ table' = [table EXCEPT ![z] = Append(@, found[z][position[z]])]
    /\ position' = [position EXCEPT ![z] = @ + 1]
    /\ UNCHANGED <<found, readFrom, removed, refused, daemonVars, connVars, progVars>>

(* Mutant: the index of the loop. *)
RemovalIndexOfLoop(z) == position[z] - 1

RemovalIndex(z) == position[z] - 1 - removed[z]

(* Mutant: the failed module keeps its slot in the zygote's table. *)
ModuleFailsInPlace(z) ==
    /\ pcs[z] = "load" /\ position[z] <= Len(found[z])
    /\ found[z][position[z]] \in MayFail
    /\ Connect(z, "RemoveModule", RemovalIndex(z), found[z][position[z]])
    /\ Goes(z, "remove")
    /\ table' = [table EXCEPT ![z] = Append(@, found[z][position[z]])]
    /\ UNCHANGED <<found, readFrom, removed, position, refused>> /\ Elsewhere

ModuleFails(z) ==
    /\ pcs[z] = "load" /\ position[z] <= Len(found[z])
    /\ found[z][position[z]] \in MayFail
    /\ Connect(z, "RemoveModule", RemovalIndex(z), found[z][position[z]])
    /\ Goes(z, "remove")
    /\ UNCHANGED loadVars /\ Elsewhere

RemovalEnds(z) ==
    /\ pcs[z] = "remove"
    /\ Answered(z) \/ Failed(z)
    /\ removed' = [removed EXCEPT ![z] =
           IF Answered(z) /\ answer[z].said = "yes" THEN @ + 1 ELSE @]
    /\ position' = [position EXCEPT ![z] = @ + 1]
    /\ Close(z, serving) /\ Goes(z, "load")
    /\ UNCHANGED <<found, readFrom, table, refused>> /\ Elsewhere

(* free_modules; the loop's variables are gone. *)
LoadingEnds(z) ==
    /\ pcs[z] = "load" /\ position[z] > Len(found[z])
    /\ found' = [found EXCEPT ![z] = <<>>]
    /\ removed' = [removed EXCEPT ![z] = 0]
    /\ position' = [position EXCEPT ![z] = 1]
    /\ Goes(z, "ready")
    /\ UNCHANGED <<connVars, readFrom, table, refused>> /\ Elsewhere

(* fork_pre: the child has the zygote's module table.                      *)
Fork(z, a) ==
    /\ pcs[z] \in {"ready", "bare"} /\ pcs[a] = "unborn"
    /\ table' = [table EXCEPT ![a] = table[z]]
    /\ parent' = [parent EXCEPT ![a] = z]
    /\ Goes(a, "flags")
    /\ UNCHANGED <<found, readFrom, removed, position, refused, daemonVars, connVars, current, kills>>

(***************************************************************************)
(* An app, in app_specialize_pre: its flags (asked twice if need be), a    *)
(* clean namespace before the modules run if it is the first process or on *)
(* the denylist, the requests its modules make, and a clean namespace      *)
(* after they ran if they ask for it.                                      *)
(***************************************************************************)
AskFlags(a) ==
    /\ pcs[a] \in {"flags", "retry"} /\ Connect(a, "GetProcessFlags", 0, Nobody)
    /\ UNCHANGED <<loadVars, progVars, daemonVars>>

HasFlags(a) ==
    /\ pcs[a] \in {"flags", "retry"}
    /\ Answered(a)
    /\ Close(a, serving)
    /\ Goes(a, CASE a \in Denylisted -> "deny"
                 [] a \notin Denylisted /\ answer[a].said = "firstStarted" -> "first"
                 [] OTHER -> "modules")
    /\ UNCHANGED loadVars /\ Elsewhere

NoFlags(a) ==
    /\ pcs[a] \in {"flags", "retry"} /\ Failed(a)
    /\ Close(a, serving) /\ Goes(a, IF pcs[a] = "flags" THEN "retry" ELSE "modules")
    /\ UNCHANGED loadVars /\ Elsewhere

AskNamespace(a) ==
    /\ pcs[a] \in {"first", "deny", "revert"}
    /\ Connect(a, "UpdateMountNamespace", 0, Nobody)
    /\ UNCHANGED <<loadVars, progVars, daemonVars>>

NamespaceEnds(a) ==
    /\ pcs[a] \in {"first", "deny", "revert"} /\ (Answered(a) \/ Failed(a))
    /\ Close(a, serving) /\ Goes(a, IF pcs[a] = "revert" THEN "done" ELSE "modules")
    /\ UNCHANGED loadVars /\ Elsewhere

(* A module asks by its index in the process's own table.                  *)
ModuleAsks(a) ==
    /\ pcs[a] = "modules"
    /\ \E i \in 1 .. Len(table[a]), act \in {"RequestCompanionSocket", "GetModuleDir"} :
           Connect(a, act, i - 1, table[a][i])
    /\ Goes(a, "asked")
    /\ UNCHANGED loadVars /\ Elsewhere

ModuleAnswered(a) ==
    /\ pcs[a] = "asked" /\ (Answered(a) \/ Failed(a))
    /\ Close(a, serving) /\ Goes(a, "modules")
    /\ UNCHANGED loadVars /\ Elsewhere

(* run_modules_pre is over: a module may have set ForceDenylistUnmount.    *)
ModulesRan(a) ==
    /\ pcs[a] = "modules"
    /\ \E pc \in {"done"} \cup (IF a \in Denylisted THEN {} ELSE {"revert"}) : Goes(a, pc)
    /\ UNCHANGED <<connVars, loadVars>> /\ Elsewhere

(* A process is killed: its memory and its sockets are gone.  What it       *)
(* wrote to the daemon is still read.                                      *)
Kill(c) ==
    /\ kills < MaxKills /\ pcs[c] \notin {"unborn", "done", "dead"}
    /\ c \in Zygotes => c = current
    /\ Goes(c, "dead") /\ kills' = kills + 1
    /\ table' = [table EXCEPT ![c] = <<>>]
    /\ found' = [z \in Zygotes |-> IF z = c THEN <<>> ELSE found[z]]
    /\ removed' = [z \in Zygotes |-> IF z = c THEN 0 ELSE removed[z]]
    /\ position' = [z \in Zygotes |-> IF z = c THEN 1 ELSE position[z]]
    /\ refused' = [z \in Zygotes |-> IF z = c THEN 0 ELSE refused[z]]
    /\ IF Waiting(c) THEN UNCHANGED connVars ELSE Close(c, serving)
    /\ UNCHANGED <<daemonVars, readFrom, current, parent>>

-----------------------------------------------------------------------------
DaemonStep == Accept \/ ActionUnreadable \/ \E c \in Clients : HandleClient(c)

ZygoteStep(z) ==
    \/ AskRestart(z) \/ AskModules(z) \/ ReadAgain(z) \/ ReadFails(z)
    \/ ReadSucceeds(z) \/ ModuleLoads(z) \/ ModuleFails(z) \/ RemovalEnds(z) \/ LoadingEnds(z)

AppStep(a) ==
    \/ AskFlags(a) \/ HasFlags(a) \/ NoFlags(a) \/ AskNamespace(a) \/ NamespaceEnds(a)
    \/ ModuleAnswered(a) \/ ModulesRan(a)

Next ==
    \/ DaemonStep \/ InvalidateCleanNs \/ DaemonKilled \/ Respawn
    \/ \E z \in Zygotes : \/ StartZygote(z) \/ ZygoteStep(z) \/ ReadTimesOut(z)
                         \/ \E a \in Apps : Fork(z, a)
    \/ \E a \in Apps : AppStep(a) \/ ModuleAsks(a)
    \/ \E c \in Zygotes \cup Apps : Write(c)
    \/ \E a \in Apps : CompanionAnswers(a)
    \/ \E m \in Modules : CompanionDies(m)
    \/ \E c \in Zygotes \cup Apps : Kill(c)

(***************************************************************************)
(* The daemon and the clients run until they block, a client that connects *)
(* goes on to write its request (or dies), and a companion acknowledges a  *)
(* client or ends.  Nothing obliges the monitor to start another daemon: a *)
(* client of a daemon that is gone is refused.  The zygote's deadline may  *)
(* pass at any time and need not: nothing rests on it.                     *)
(***************************************************************************)
Fairness ==
    /\ WF_vars(DaemonStep)
    /\ \A z \in Zygotes : WF_vars(ZygoteStep(z) \/ Write(z))
    /\ \A a \in Apps : WF_vars(AppStep(a) \/ Write(a)) /\ WF_vars(CompanionAnswers(a))

Spec == Init /\ [][Next]_vars
FairSpec == Spec /\ Fairness

-----------------------------------------------------------------------------
TypeOK ==
    /\ {up, first, clean} \subseteq BOOLEAN
    /\ started \in 0 .. MaxRespawns
    /\ list \in Seq(Modules)
    /\ companion \in [Modules -> {"none", "noEntry", "live"}]
    /\ serving \in Clients \cup {Nobody}
    /\ backlog \in Seq(Clients)
    /\ conn \in [Clients -> {"none", "queued", "open", "handed", "answered", "refused", "reset"}]
    /\ req \in [Clients -> [act : Actions \cup {"none"}, index : Nat,
                      of : Modules \cup {Nobody}]]
    /\ wrote \in [Clients -> 0 .. 2]
    /\ answer \in [Clients -> [said : Answers, modules : Seq(Modules), from : Nat]]
    /\ pcs \in [Clients -> ZygotePcs \cup AppPcs]
    /\ current \in Zygotes \cup {Nobody}
    /\ found \in [Zygotes -> Seq(Modules)]
    /\ readFrom \in [Zygotes -> Nat]
    /\ table \in [Zygotes \cup Apps -> Seq(Modules)]
    /\ removed \in [Zygotes -> Nat] /\ position \in [Zygotes -> Nat \ {0}]
    /\ refused \in [Zygotes -> 0 .. MaxAttempts]
    /\ parent \in [Apps -> Zygotes \cup {Nobody}]
    /\ kills \in Nat

(* The module a request names in the daemon's list.                        *)
Asks(c, acts) == up /\ serving = c /\ Complete(c) /\ req[c].act \in acts
SameModule(c, m) == Indexed(c) /\ Entry(c) = m
ByIndex == {"RequestCompanionSocket", "GetModuleDir"}

(* A process of the running zygote that asks the daemon    *)
(* the zygote read its table from gets the companion and the directory of  *)
(* the module it means, whatever failed to load or was killed meanwhile.   *)
CompanionIsOwn ==
    TypeOK /\ \A a \in Apps :
        (Asks(a, ByIndex) /\ parent[a] = current /\ readFrom[current] = started)
            => SameModule(a, req[a].of)

(* A zygote's failed load removes that module from the daemon it read the  *)
(* list from, and no other, whoever is killed at any point of its requests. *)
RemovesOwn ==
    \A z \in Zygotes :
        (Asks(z, {"RemoveModule"}) /\ readFrom[z] = started)
            => SameModule(z, req[z].of)

(* load_modules_only removes a failed module from the daemon "to avoid a   *)
(* mismatch between the loaded modules in ReZygisk Zygote library and the  *)
(* available modules in ReZygiskd" (load_modules.rs:118-120): stated for   *)
(* every daemon the running zygote's processes meet, respawned ones too.   *)
IndicesAgree ==
    \A a \in Apps :
        (Asks(a, ByIndex) /\ parent[a] = current)
            => SameModule(a, req[a].of)

(* Every request ends, with an answer or an error: no client that dies, in *)
(* whatever part of a request, and no exit of the daemon or of a companion *)
(* leaves another one waiting.                                             *)
RequestsEnd == \A c \in Zygotes \cup Apps : Waiting(c) ~> ~Waiting(c)

(* A zygote gets through the loading of its modules, with or without them. *)
ZygoteLoads ==
    \A z \in Zygotes : pcs[z] \in {"restart", "read"} ~> pcs[z] \in {"ready", "bare", "dead"}

==============================================================================
