------------------------ MODULE ExtensionProcesses ------------------------
(***************************************************************************)
(* Extensions and their processes, as ExtensionManager keeps them: what is *)
(* installed, which extension is marked as running, the process recorded   *)
(* for it and the extension recorded for a process.                        *)
(*                                                                         *)
(* The end of a process is told by its QProcess, from the event loop or    *)
(* from inside a call that waits for it; the slot deletes the QProcess     *)
(* that is telling it.  That is undefined: the core may die of it.         *)
(* forgotten is history: the extensions that ceased to be marked as        *)
(* running while their process was there: by an update, or by a stop that  *)
(* did not see it end.                                                     *)
(***************************************************************************)
EXTENDS Naturals

CONSTANTS
    Extension,
    MaxProcesses    \* bound: processes started

ASSUME ExtensionAssumption == MaxProcesses \in Nat /\ "none" \notin Extension

VARIABLE exts

Process == 1..MaxProcesses

Extensions ==
    [installed: SUBSET Extension,                   \* m_extensions
     running: SUBSET Extension,                     \* isRunning
     processes: [Extension -> 0..MaxProcesses],     \* m_processes, 0 is none
     owner: [Process -> Extension \cup {"none"}],   \* m_processToExtension
     alive: SUBSET Process,                         \* at the operating system
     started: 0..MaxProcesses,
     forgotten: SUBSET Extension]

-----------------------------------------------------------------------------
(* The core itself.                                                        *)

\* A core that starts reads the manifests in its directory.  Extensions installed
\* elsewhere are not found, and processes of the last core that live on are not known.
FreshCore(e) ==
    {[e EXCEPT !.installed = found, !.running = {}, !.processes = [x \in Extension |-> 0],
               !.owner = [p \in Process |-> "none"], !.forgotten = {}] :
         found \in SUBSET e.installed}

\* The core dies, or the destructor stops what it knows; it may die of the first one.
CoreRestarts ==
    \E alive \in SUBSET exts.alive : exts' \in FreshCore([exts EXCEPT !.alive = alive])

-----------------------------------------------------------------------------
(* The end of a process.                                                   *)

\* mutant: the process is forgotten in one of the two maps
OnProcessFinished_KeepsOwner(e, p) ==
    LET x == e.owner[p]
    IN  [e EXCEPT !.running = @ \ {x}, !.processes[x] = 0]

\* onProcessFinished looks the process up by its extension: what it deletes, and with it
\* stops, is the process that is recorded there.
OnProcessFinished(e, p) ==
    LET x == e.owner[p]
        recorded == e.processes[x]
    IN  [e EXCEPT !.running = @ \ {x}, !.processes[x] = 0, !.alive = @ \ {recorded},
                  !.owner = [q \in Process |-> IF q \in {p, recorded} THEN "none" ELSE @[q]]]

\* The outcomes of deleting the process that is telling of its end.
Told(e, p) == {OnProcessFinished(e, p)} \cup FreshCore(e)

ProcessEnds == \E p \in exts.alive : exts' = [exts EXCEPT !.alive = @ \ {p}]

HearOfEnd ==
    \E p \in Process \ exts.alive : exts.owner[p] # "none" /\ exts' \in Told(exts, p)

-----------------------------------------------------------------------------
(* Operations.                                                             *)

\* x is not marked as running, whatever is recorded of its process.
Forgotten(e, x) ==
    [e EXCEPT !.running = @ \ {x},
              !.forgotten = IF x \in e.running THEN @ \cup {x} ELSE @]

\* installExtension, also as an update: the new record says that nothing runs.
Install(x) == exts' = [Forgotten(exts, x) EXCEPT !.installed = @ \cup {x}]

\* startProcess and startExtension, of a process that starts.
Started(e, x) ==
    LET p == e.started + 1
    IN  [e EXCEPT !.running = @ \cup {x}, !.processes[x] = p, !.owner[p] = x,
                  !.alive = @ \cup {p}, !.started = p]

CanStart(e, x) == x \in e.installed /\ x \notin e.running /\ e.started < MaxProcesses

Start(x) == CanStart(exts, x) /\ exts' = Started(exts, x)

\* stopExtension waits for the end of the process, which is told inside the wait.  The
\* wait after the kill may time out too: its end is then told later, if ever.
Stop(e, x) ==
    IF x \notin e.running THEN {e}
    ELSE LET p == e.processes[x]
         IN  Told([e EXCEPT !.alive = @ \ {p}], p)
               \cup (IF p \in e.alive THEN {Forgotten(e, x)} ELSE {})

StopExtension(x) == x \in exts.installed /\ exts' \in Stop(exts, x)

\* After a stop of which the core died nothing more is done.
RestartExtension(x) ==
    /\ x \in exts.installed
    /\ \E e \in Stop(exts, x) : exts' = e \/ (CanStart(e, x) /\ exts' = Started(e, x))

\* uninstallExtension; the directory may resist.
Uninstall(x) ==
    /\ x \in exts.installed
    /\ \E e \in Stop(exts, x) : exts' \in {e, [e EXCEPT !.installed = @ \ {x}]}

ExtensionInit ==
    \E installed \in SUBSET Extension :
        exts = [installed |-> installed, running |-> {}, processes |-> [x \in Extension |-> 0],
                owner |-> [p \in Process |-> "none"], alive |-> {}, started |-> 0,
                forgotten |-> {}]

ExtensionNext ==
    \/ \E x \in Extension :
           Install(x) \/ Start(x) \/ StopExtension(x) \/ RestartExtension(x) \/ Uninstall(x)
    \/ ProcessEnds \/ HearOfEnd \/ CoreRestarts

ExtensionSpec == ExtensionInit /\ [][ExtensionNext]_exts

-----------------------------------------------------------------------------
(* Properties.                                                             *)

ExtensionTypeOK == exts \in Extensions

\* What is marked as running has a process, the only one the manager knows of it, and
\* nothing else has, unless an update or a stop that timed out left its process behind.
RunningIsRecorded ==
    \A x \in Extension \ exts.forgotten :
        LET own == {p \in Process : exts.owner[p] = x}
        IN  /\ x \in exts.running => x \in exts.installed
            /\ own = IF x \in exts.running THEN {exts.processes[x]} ELSE {}
            /\ (exts.processes[x] # 0) <=> (x \in exts.running)
=============================================================================
