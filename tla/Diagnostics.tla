----------------------------- MODULE Diagnostics -----------------------------
(***************************************************************************)
(* IdeDiagnosticsManager (src/libide/code/ide-diagnostics-manager.c).  A   *)
(* file that is open has an adapter with providers of diagnostics for its  *)
(* language, each an object of its own; what they find is kept by file,    *)
(* and may be about other files than their own.  A group of providers is   *)
(* asked again when the file has changed, all of them at a time, and not   *)
(* while one of them is still being asked.                                 *)
(*                                                                         *)
(* The group of a file, once it is made, is never disposed of: the branch  *)
(* of diagnose_cb that does so needs a group that has no adapter, and the  *)
(* provider of such a group is not in it any more.  The contents and the   *)
(* language of a file are what has changed since its providers were asked. *)
(***************************************************************************)
EXTENDS Naturals, FiniteSets

CONSTANTS
    Files,      \* files that are open or that diagnostics are about
    Providers,  \* the objects that adapters make
    NoFile      \* a value that is not a file

ASSUME DiagnosticsAssumption == IsFiniteSet(Providers) /\ NoFile \notin Files

VARIABLES
    open,       \* the groups that have an adapter
    reload,     \* the adapters that will look at the language of their file
    owner,      \* the data "IDE_DIAGNOSTICS_GROUP" of each provider
    needs,      \* the groups with needs_diagnose
    inDiagnose, \* in_diagnose of each group, a counter
    source,     \* whether there is a queued_diagnose_source
    query,      \* a provider that is asked, and whether about what there is now
    known,      \* the providers whose last answer is about what there is now
    shown       \* the providers each group has diagnostics of

vars == <<open, reload, owner, needs, inDiagnose, source, query, known, shown>>

Loaded(f) == {p \in Providers : owner[p] = f}
Asked(f)  == {p \in Loaded(f) : query[p] # "none"}

\* What an adapter can make: no object that still waits for an answer.
Unused == {p \in Providers : owner[p] = NoFile /\ query[p] = "none"}

TypeOK ==
    /\ open \subseteq Files /\ reload \subseteq open /\ needs \subseteq Files
    /\ owner \in [Providers -> open \cup {NoFile}]
    /\ inDiagnose \in [Files -> 0..Cardinality(Providers)]
    /\ source \in BOOLEAN
    /\ query \in [Providers -> {"none", "current", "outdated"}]
    /\ known \subseteq Providers
    /\ shown \in [Files -> SUBSET Providers]

Init ==
    /\ open = {} /\ reload = {} /\ needs = {}
    /\ owner = [p \in Providers |-> NoFile]
    /\ inDiagnose = [f \in Files |-> 0]
    /\ source = FALSE
    /\ query = [p \in Providers |-> "none"]
    /\ known = {}
    /\ shown = [f \in Files |-> {}]

-----------------------------------------------------------------------------
(* Requests *)

\* Mutant: nothing is remembered while a provider is asked.
QueueUnlessBusy(f) ==
    /\ needs' = IF inDiagnose[f] = 0 THEN needs \cup {f} ELSE needs
    /\ source' = (source \/ inDiagnose[f] = 0)

\* ide_diagnostics_group_queue_diagnose.
QueueDiagnose(f) ==
    /\ needs' = needs \cup {f}
    /\ source' = (source \/ inDiagnose[f] = 0)

\* What the providers of f were asked or have answered is not about the file
\* as it is any more.
Outdated(f) ==
    /\ query' = [p \in Providers |-> IF p \in Asked(f) THEN "outdated" ELSE query[p]]
    /\ known' = known \ Loaded(f)

\* _ide_diagnostics_manager_file_changed, for a buffer whose file was loaded
\* or not, ide_diagnostics_manager_rediagnose, and
\* _ide_diagnostics_manager_file_opened when the file is open.
FileChanged(f) ==
    /\ Outdated(f)
    /\ QueueDiagnose(f)
    /\ UNCHANGED <<open, reload, owner, inDiagnose, shown>>

\* _ide_diagnostics_manager_language_changed: the adapter reloads from an idle.
LanguageChanged(f) ==
    /\ Outdated(f)
    /\ QueueDiagnose(f)
    /\ reload' = reload \cup ({f} \cap open)
    /\ UNCHANGED <<open, owner, inDiagnose, shown>>

\* A provider says that its diagnostics are out of date.
ProviderInvalidated(p) ==
    /\ owner[p] # NoFile
    /\ query' = [query EXCEPT ![p] = IF @ = "none" THEN @ ELSE "outdated"]
    /\ known' = known \ {p}
    /\ QueueDiagnose(owner[p])
    /\ UNCHANGED <<open, reload, owner, inDiagnose, shown>>

-----------------------------------------------------------------------------
(* Providers come and go *)

\* Mutant: only the group of the providers is cleared.
UnloadHere(f, ps) ==
    /\ \A p \in ps : owner[p] = f
    /\ shown' = [shown EXCEPT ![f] = @ \ ps]

\* No group keeps what unloaded providers found, neither their own nor others.
Unload(f, ps) ==
    /\ \A p \in ps : owner[p] = f
    /\ shown' = [g \in Files |-> shown[g] \ ps]

\* The adapter of f makes and drops providers: extension_added and
\* extension_removed, which set the group of a provider and take it away.
Swap(f, removed, added) ==
    /\ removed \subseteq Loaded(f) /\ added \subseteq Unused
    /\ Unload(f, removed)
    /\ owner' = [p \in Providers |-> IF p \in removed THEN NoFile
                                     ELSE IF p \in added THEN f ELSE owner[p]]
    /\ known' = known \ added

\* _ide_diagnostics_manager_file_opened: the adapter loads its providers at once.
FileOpened(f, added) ==
    /\ f \notin open
    /\ open' = open \cup {f}
    /\ Swap(f, {}, added)
    /\ QueueDiagnose(f)
    /\ UNCHANGED <<reload, inDiagnose, query>>

\* A plugin is loaded or enabled, or is not any more: adapters queue a reload.
PluginsChanged(fs) ==
    /\ fs \subseteq open
    /\ reload' = reload \cup fs
    /\ UNCHANGED <<open, owner, needs, inDiagnose, source, query, known, shown>>

\* ide_extension_set_adapter_reload, with the handlers it calls.
Reload(f, removed, added) ==
    /\ f \in reload
    /\ reload' = reload \ {f}
    /\ Swap(f, removed, added)
    /\ IF added = {} THEN UNCHANGED <<needs, source>> ELSE QueueDiagnose(f)
    /\ UNCHANGED <<open, inDiagnose, query>>

\* ide_extension_set_adapter_unload_plugin, of the plugin that made p for f.
PluginUnloaded(f, p) ==
    /\ Swap(f, {p}, {})
    /\ UNCHANGED <<open, reload, needs, inDiagnose, source, query>>

\* _ide_diagnostics_manager_file_closed, for a buffer whose file was loaded or
\* not; the adapter drops its providers and its reload.
FileClosed(f) ==
    /\ open' = open \ {f} /\ reload' = reload \ {f} /\ needs' = needs \ {f}
    /\ Swap(f, Loaded(f), {})
    /\ UNCHANGED <<inDiagnose, source, query>>

-----------------------------------------------------------------------------
(* Diagnosing *)

\* Mutant: a group is diagnosed again while its providers are asked.
ReadyWhileAsked == needs \cap open

\* The groups that begin_diagnose finds to be diagnosed.
Ready == {f \in needs \cap open : inDiagnose[f] = 0}

\* ide_diagnostics_manager_begin_diagnose.
BeginDiagnose ==
    LET asked == {p \in Providers : owner[p] \in Ready} IN
    /\ source
    /\ source' = FALSE
    /\ needs' = needs \ Ready
    /\ inDiagnose' = [f \in Files |-> inDiagnose[f] +
                         IF f \in Ready THEN Cardinality(Loaded(f)) ELSE 0]
    /\ query' = [p \in Providers |-> IF p \in asked THEN "current" ELSE query[p]]
    /\ UNCHANGED <<open, reload, owner, known, shown>>

\* Mutant: the request made while the providers were asked is left to the next.
LeaveIt(f) == f \in Files /\ UNCHANGED source

\* The last answer starts the next diagnosis, if there is a need for it.
NextDiagnose(f) == source' = (source \/ (inDiagnose'[f] = 0 /\ f \in needs))

\* ide_diagnostics_group_diagnose_cb.  A provider that was unloaded meanwhile
\* has no group and is not listened to; "found" is empty after an error.
DiagnoseCb(p, found) ==
    LET f == owner[p] IN
    /\ query[p] # "none"
    /\ query' = [query EXCEPT ![p] = "none"]
    /\ IF f = NoFile
       THEN /\ found = {}
            /\ UNCHANGED <<inDiagnose, source, known, shown>>
       ELSE /\ inDiagnose' = [inDiagnose EXCEPT ![f] = @ - 1]
            /\ known' = IF query[p] = "current" THEN known \cup {p} ELSE known
            /\ shown' = [g \in Files |-> IF g \in found THEN shown[g] \cup {p}
                                         ELSE shown[g] \ {p}]
            /\ NextDiagnose(f)
    /\ UNCHANGED <<open, reload, owner, needs>>

Next ==
    \/ \E f \in Files : FileChanged(f) \/ LanguageChanged(f) \/ FileClosed(f)
    \/ \E fs \in SUBSET Files : PluginsChanged(fs)
    \/ \E f \in Files, p \in Providers : PluginUnloaded(f, p)
    \/ \E f \in Files, added \in SUBSET Providers : FileOpened(f, added)
    \/ \E f \in Files, removed, added \in SUBSET Providers : Reload(f, removed, added)
    \/ \E p \in Providers : ProviderInvalidated(p)
    \/ \E p \in Providers, found \in SUBSET Files : DiagnoseCb(p, found)
    \/ BeginDiagnose

Spec == Init /\ [][Next]_vars

\* The main loop dispatches the timeout and the idles, and a provider that is
\* asked answers, if only with an error.
FairSpec ==
    /\ Spec
    /\ WF_vars(BeginDiagnose)
    /\ \A p \in Providers : WF_vars(\E found \in SUBSET Files : DiagnoseCb(p, found))

-----------------------------------------------------------------------------
(* Properties *)

\* When nothing is asked and nothing is to be, what is shown of a file that is
\* open is about the file as it is, of all the providers it has, whatever has
\* changed while they were asked.
Settled ==
    \A f \in open : f \notin needs /\ inDiagnose[f] = 0 => Loaded(f) \subseteq known

\* No file shows what was found by a provider that was unloaded, before or
\* while it was asked.
NoLeftovers == \A f \in Files : \A p \in shown[f] : owner[p] # NoFile

\* A provider of the file was unloaded while it was asked: in_diagnose counts
\* it for ever.
Lost(f) == inDiagnose[f] > Cardinality(Asked(f))

\* A request is followed by a diagnosis, made during another one or not,
\* unless a provider was unloaded while it was asked.
RequestsAreServed ==
    \A f \in Files : f \in needs \cap open ~> f \notin needs \cap open \/ Lost(f)

\* "the completion of the diagnose will tick off the next diagnose upon seening
\* group->needs_diagnose==TRUE" (ide-diagnostics-manager.c:529-530).
NextOneIsTickedOff ==
    \A f \in Files : f \in needs \cap open ~> f \notin needs \cap open

=============================================================================
