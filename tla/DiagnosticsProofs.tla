-------------------------- MODULE DiagnosticsProofs --------------------------
(***************************************************************************)
(* Theorems of Diagnostics, for every set of files and every finite set of *)
(* providers.                                                              *)
(***************************************************************************)
EXTENDS Diagnostics, FiniteSetTheorems, TLAPS

\* in_diagnose counts at least the providers of the group that are asked, so
\* that no answer takes it below zero.
CountInv == \A f \in Files : Cardinality(Asked(f)) <= inDiagnose[f]

\* A group that needs no diagnosis has asked its providers about what there is
\* now, or has their answers.
FreshInv ==
    \A f \in open \ needs : \A p \in Loaded(f) : p \in known \/ query[p] = "current"

IInv == TypeOK /\ CountInv /\ FreshInv

-----------------------------------------------------------------------------

\* Sets of providers are finite.
LEMMA Counts ==
    ASSUME NEW S \in SUBSET Providers
    PROVE  /\ IsFiniteSet(S) /\ Cardinality(S) \in Nat
           /\ Cardinality(S) <= Cardinality(Providers)
BY DiagnosticsAssumption, FS_Subset, FS_CardinalityType

LEMMA CountsGrow ==
    ASSUME NEW S \in SUBSET Providers, NEW T \in SUBSET S
    PROVE  Cardinality(T) <= Cardinality(S)
<1>1. IsFiniteSet(S)
  BY Counts
<1> QED BY <1>1, FS_Subset

\* The groups whose providers are asked keep their counts covered as long as no
\* provider is asked and the counts stay.
LEMMA CountStays ==
    ASSUME CountInv, TypeOK, TypeOK', inDiagnose' = inDiagnose,
           \A f \in Files : Asked(f)' \subseteq Asked(f)
    PROVE  CountInv'
<1> SUFFICES ASSUME NEW f \in Files
             PROVE  Cardinality(Asked(f)') <= inDiagnose[f]
  BY DEF CountInv
<1>1. Asked(f) \in SUBSET Providers /\ Asked(f)' \in SUBSET Asked(f)
  BY DEF Asked, Loaded
<1>2. Cardinality(Asked(f)') <= Cardinality(Asked(f))
  BY <1>1, CountsGrow
<1>3. Cardinality(Asked(f)) \in Nat /\ Cardinality(Asked(f)') \in Nat
  BY <1>1, Counts
<1>4. inDiagnose[f] \in Nat
  BY Counts DEF TypeOK
<1> QED BY <1>2, <1>3, <1>4 DEF CountInv

\* What Outdated, QueueDiagnose and Swap do to the variables.
LEMMA OutdatedEffect ==
    ASSUME TypeOK, NEW f \in Files, Outdated(f)
    PROVE  /\ query' \in [Providers -> {"none", "current", "outdated"}]
           /\ known' \subseteq Providers
           /\ \A p \in Providers : /\ query'[p] = "none" <=> query[p] = "none"
                                   /\ owner[p] # f => query'[p] = query[p]
           /\ \A p \in known : owner[p] # f => p \in known'
BY DEF Outdated, TypeOK, Asked, Loaded

LEMMA SwapEffect ==
    ASSUME TypeOK, NEW f \in Files, NEW removed \in SUBSET Providers,
           NEW added \in SUBSET Providers, Swap(f, removed, added)
    PROVE  /\ shown' \in [Files -> SUBSET Providers]
           /\ known' = known \ added
           /\ owner' \in [Providers -> open \cup {f, NoFile}]
           /\ \A p \in Providers : owner'[p] # owner[p] \/ p \in removed \cup added =>
                 \/ owner[p] = f /\ p \in removed /\ owner'[p] = NoFile
                 \/ owner[p] = NoFile /\ query[p] = "none" /\ p \in added /\ owner'[p] = f
<1>1. removed \subseteq Loaded(f) /\ added \subseteq Unused
  BY DEF Swap
<1>2. f # NoFile
  BY DiagnosticsAssumption
<1>3. owner' = [p \in Providers |-> IF p \in removed THEN NoFile
                                    ELSE IF p \in added THEN f ELSE owner[p]]
  BY DEF Swap
<1>4. shown' \in [Files -> SUBSET Providers] /\ known' = known \ added
  BY DEF Swap, Unload, TypeOK
<1> QED BY <1>1, <1>2, <1>3, <1>4 DEF TypeOK, Loaded, Unused

-----------------------------------------------------------------------------

\* TypeOK is kept by every step.
LEMMA TypeStep ==
    ASSUME TypeOK, CountInv, [Next]_vars
    PROVE  TypeOK'
<1>1. ASSUME NEW f \in Files, FileChanged(f) PROVE TypeOK'
  BY <1>1, OutdatedEffect DEF FileChanged, QueueDiagnose, TypeOK
<1>2. ASSUME NEW f \in Files, LanguageChanged(f) PROVE TypeOK'
  BY <1>2, OutdatedEffect DEF LanguageChanged, QueueDiagnose, TypeOK
<1>3. ASSUME NEW f \in Files, FileClosed(f) PROVE TypeOK'
  <2>1. Loaded(f) \in SUBSET Providers /\ {} \in SUBSET Providers /\ Swap(f, Loaded(f), {})
    BY <1>3 DEF FileClosed, Loaded
  <2>2. \A p \in Providers : owner'[p] \in open' \cup {NoFile}
    BY <1>3, <2>1 DEF FileClosed, Swap, Loaded, TypeOK
  <2>3. owner' \in [Providers -> open' \cup {NoFile}]
    BY <2>1, <2>2, SwapEffect
  <2>4. shown' \in [Files -> SUBSET Providers] /\ known' = known \ {}
    BY <2>1, SwapEffect
  <2> QED BY <1>3, <2>3, <2>4 DEF FileClosed, TypeOK
<1>4. ASSUME NEW fs \in SUBSET Files, PluginsChanged(fs) PROVE TypeOK'
  BY <1>4 DEF PluginsChanged, TypeOK
<1>5. ASSUME NEW f \in Files, NEW p \in Providers, PluginUnloaded(f, p) PROVE TypeOK'
  <2>1. Swap(f, {p}, {}) /\ {p} \in SUBSET Providers /\ {} \in SUBSET Providers
    BY <1>5 DEF PluginUnloaded
  <2>2. owner[p] = f /\ f \in open
    BY <2>1, DiagnosticsAssumption DEF Swap, Loaded, TypeOK
  <2>3. owner' \in [Providers -> open \cup {f, NoFile}] /\ known' = known \ {}
        /\ shown' \in [Files -> SUBSET Providers]
    BY <2>1, SwapEffect
  <2>4. open \cup {f, NoFile} = open \cup {NoFile}
    BY <2>2
  <2> QED BY <1>5, <2>3, <2>4 DEF PluginUnloaded, TypeOK
<1>6. ASSUME NEW f \in Files, NEW added \in SUBSET Providers, FileOpened(f, added)
      PROVE  TypeOK'
  <2>1. Swap(f, {}, added) /\ {} \in SUBSET Providers
    BY <1>6 DEF FileOpened
  <2>2. owner' \in [Providers -> open \cup {f, NoFile}] /\ known' = known \ added
        /\ shown' \in [Files -> SUBSET Providers]
    BY <2>1, SwapEffect
  <2>3. open' = open \cup {f} /\ open \cup {f, NoFile} = open' \cup {NoFile}
    BY <1>6 DEF FileOpened
  <2> QED BY <1>6, <2>2, <2>3 DEF FileOpened, QueueDiagnose, TypeOK
<1>7. ASSUME NEW f \in Files, NEW removed \in SUBSET Providers,
             NEW added \in SUBSET Providers, Reload(f, removed, added)
      PROVE  TypeOK'
  <2>1. Swap(f, removed, added) /\ f \in open
    BY <1>7 DEF Reload, TypeOK
  <2>2. owner' \in [Providers -> open \cup {f, NoFile}] /\ known' = known \ added
        /\ shown' \in [Files -> SUBSET Providers]
    BY <2>1, SwapEffect
  <2>3. open \cup {f, NoFile} = open \cup {NoFile}
    BY <2>1
  <2>4. needs' \subseteq Files /\ source' \in BOOLEAN
    BY <1>7 DEF Reload, QueueDiagnose, TypeOK
  <2> QED BY <1>7, <2>2, <2>3, <2>4 DEF Reload, TypeOK
<1>8. ASSUME NEW p \in Providers, ProviderInvalidated(p) PROVE TypeOK'
  BY <1>8 DEF ProviderInvalidated, QueueDiagnose, TypeOK
<1>9. ASSUME NEW p \in Providers, NEW found \in SUBSET Files, DiagnoseCb(p, found)
      PROVE  TypeOK'
  <2> DEFINE f == owner[p]
  <2>1. CASE f = NoFile
    BY <1>9, <2>1 DEF DiagnoseCb, TypeOK
  <2>2. CASE f # NoFile
    <3>1. f \in Files /\ p \in Asked(f) /\ Asked(f) \in SUBSET Providers
      BY <1>9, <2>2 DEF DiagnoseCb, Asked, Loaded, TypeOK
    <3>2. Cardinality({p}) = 1 /\ Cardinality({p}) <= Cardinality(Asked(f))
      BY <3>1, CountsGrow, FS_Singleton
    <3>3. Cardinality(Providers) \in Nat /\ Cardinality(Asked(f)) \in Nat
          /\ Cardinality(Asked(f)) <= inDiagnose[f]
      BY <3>1, Counts DEF CountInv
    <3>4. inDiagnose[f] - 1 \in 0..Cardinality(Providers)
      BY <3>1, <3>2, <3>3 DEF TypeOK
    <3>5. inDiagnose' \in [Files -> 0..Cardinality(Providers)]
      BY <1>9, <2>2, <3>4 DEF DiagnoseCb, TypeOK
    <3>6. source' \in BOOLEAN
      BY <1>9, <2>2 DEF DiagnoseCb, NextDiagnose, TypeOK
    <3>7. shown' \in [Files -> SUBSET Providers]
      <4>1. shown' = [g \in Files |-> IF g \in found THEN shown[g] \cup {p}
                                      ELSE shown[g] \ {p}]
        BY <1>9, <2>2 DEF DiagnoseCb
      <4>2. \A g \in Files : shown[g] \cup {p} \in SUBSET Providers
                             /\ shown[g] \ {p} \in SUBSET Providers
        BY DEF TypeOK
      <4> QED BY <4>1, <4>2
    <3> QED BY <1>9, <2>2, <3>5, <3>6, <3>7 DEF DiagnoseCb, TypeOK
  <2> QED BY <2>1, <2>2
<1>10. ASSUME BeginDiagnose PROVE TypeOK'
  <2>1. ASSUME NEW f \in Files
        PROVE  inDiagnose[f] + (IF f \in Ready THEN Cardinality(Loaded(f)) ELSE 0)
                  \in 0..Cardinality(Providers)
    <3>1. Loaded(f) \in SUBSET Providers
      BY DEF Loaded
    <3>2. /\ Cardinality(Loaded(f)) \in Nat /\ Cardinality(Providers) \in Nat
          /\ Cardinality(Loaded(f)) <= Cardinality(Providers)
      BY <3>1, Counts
    <3>3. inDiagnose[f] \in 0..Cardinality(Providers)
      BY DEF TypeOK
    <3>4. f \in Ready => inDiagnose[f] = 0
      BY DEF Ready
    <3> QED BY <3>2, <3>3, <3>4
  <2>2. inDiagnose' \in [Files -> 0..Cardinality(Providers)]
    BY <1>10, <2>1 DEF BeginDiagnose
  <2> QED BY <1>10, <2>2 DEF BeginDiagnose, TypeOK
<1>11. CASE UNCHANGED vars
  BY <1>11 DEF vars, TypeOK
<1> QED BY <1>1, <1>2, <1>3, <1>4, <1>5, <1>6, <1>7, <1>8, <1>9, <1>10, <1>11 DEF Next


\* A provider that is swapped is not asked while it has a group, so the swap
\* leaves every group with no more providers that are asked.
LEMMA SwapAsks ==
    ASSUME TypeOK, NEW f \in Files, NEW removed \in SUBSET Providers,
           NEW added \in SUBSET Providers, Swap(f, removed, added), query' = query
    PROVE  \A g \in Files : Asked(g)' \subseteq Asked(g)
<1>1. \A p \in Providers : owner'[p] # owner[p] =>
         owner'[p] = NoFile \/ query[p] = "none"
  BY SwapEffect
<1> QED BY <1>1, DiagnosticsAssumption DEF Asked, Loaded

LEMMA CountStep ==
    ASSUME TypeOK, TypeOK', CountInv, [Next]_vars
    PROVE  CountInv'
<1>1. ASSUME NEW f \in Files, Outdated(f), UNCHANGED <<owner, inDiagnose>>
      PROVE  CountInv'
  <2>1. \A g \in Files : Asked(g)' \subseteq Asked(g)
    BY <1>1, OutdatedEffect DEF Asked, Loaded
  <2> QED BY <1>1, <2>1, CountStays
<1>2. ASSUME NEW f \in Files, NEW removed \in SUBSET Providers,
             NEW added \in SUBSET Providers, Swap(f, removed, added),
             UNCHANGED <<query, inDiagnose>>
      PROVE  CountInv'
  <2>1. \A g \in Files : Asked(g)' \subseteq Asked(g)
    BY <1>2, SwapAsks
  <2> QED BY <1>2, <2>1, CountStays
<1>3. ASSUME NEW f \in Files, FileChanged(f) \/ LanguageChanged(f) PROVE CountInv'
  BY <1>1, <1>3 DEF FileChanged, LanguageChanged
<1>4. ASSUME NEW f \in Files, FileClosed(f) PROVE CountInv'
  <2>1. Loaded(f) \in SUBSET Providers
    BY DEF Loaded
  <2> QED BY <1>2, <1>4, <2>1 DEF FileClosed
<1>5. ASSUME NEW f \in Files, NEW added \in SUBSET Providers, FileOpened(f, added)
      PROVE  CountInv'
  BY <1>2, <1>5 DEF FileOpened
<1>6. ASSUME NEW f \in Files, NEW removed \in SUBSET Providers,
             NEW added \in SUBSET Providers, Reload(f, removed, added)
      PROVE  CountInv'
  BY <1>2, <1>6 DEF Reload
<1>7. ASSUME NEW f \in Files, NEW p \in Providers, PluginUnloaded(f, p) PROVE CountInv'
  BY <1>2, <1>7 DEF PluginUnloaded
<1>8. ASSUME NEW p \in Providers, ProviderInvalidated(p) PROVE CountInv'
  <2>1. \A g \in Files : Asked(g)' \subseteq Asked(g)
    BY <1>8 DEF ProviderInvalidated, Asked, Loaded, TypeOK
  <2> QED BY <1>8, <2>1, CountStays DEF ProviderInvalidated
<1>9. ASSUME NEW p \in Providers, NEW found \in SUBSET Files, DiagnoseCb(p, found)
      PROVE  CountInv'
  <2> SUFFICES ASSUME NEW g \in Files
               PROVE  Cardinality(Asked(g)') <= inDiagnose'[g]
    BY DEF CountInv
  <2>1. Asked(g) \in SUBSET Providers /\ Cardinality(Asked(g)) <= inDiagnose[g]
    BY DEF Asked, Loaded, CountInv
  <2>2. Asked(g)' = Asked(g) \ {p}
    BY <1>9 DEF DiagnoseCb, Asked, Loaded, TypeOK
  <2>3. IsFiniteSet(Asked(g)) /\ Cardinality(Asked(g)) \in Nat /\ inDiagnose[g] \in Nat
    BY <2>1, Counts DEF TypeOK
  <2>4. CASE g = owner[p]
    <3>1. p \in Asked(g)
      BY <1>9, <2>4 DEF DiagnoseCb, Asked, Loaded
    <3>2. Cardinality(Asked(g)') = Cardinality(Asked(g)) - 1
      BY <2>2, <2>3, <3>1, FS_RemoveElement
    <3>3. inDiagnose'[g] = inDiagnose[g] - 1
      BY <1>9, <2>4, DiagnosticsAssumption DEF DiagnoseCb, TypeOK
    <3> QED BY <2>1, <2>3, <3>2, <3>3
  <2>5. CASE g # owner[p]
    <3>1. p \notin Asked(g)
      BY <2>5 DEF Asked, Loaded
    <3>2. Asked(g)' = Asked(g)
      BY <2>2, <3>1
    <3>3. inDiagnose'[g] = inDiagnose[g]
      BY <1>9, <2>5 DEF DiagnoseCb, TypeOK
    <3> QED BY <2>1, <3>2, <3>3
  <2> QED BY <2>4, <2>5
<1>10. ASSUME BeginDiagnose PROVE CountInv'
  <2> SUFFICES ASSUME NEW g \in Files
               PROVE  Cardinality(Asked(g)') <= inDiagnose'[g]
    BY DEF CountInv
  <2>1. inDiagnose'[g] = inDiagnose[g] + IF g \in Ready THEN Cardinality(Loaded(g)) ELSE 0
    BY <1>10 DEF BeginDiagnose
  <2>2. /\ Loaded(g) \in SUBSET Providers /\ Asked(g)' \in SUBSET Loaded(g)
        /\ inDiagnose[g] \in Nat
    BY <1>10, Counts DEF BeginDiagnose, Asked, Loaded, TypeOK
  <2>3. /\ Cardinality(Loaded(g)) \in Nat /\ Cardinality(Asked(g)') \in Nat
        /\ Cardinality(Asked(g)') <= Cardinality(Loaded(g))
    BY <2>2, Counts, CountsGrow
  <2>4. CASE g \in Ready
    BY <2>1, <2>2, <2>3, <2>4
  <2>5. CASE g \notin Ready
    <3>1. Asked(g)' = Asked(g)
      BY <1>10, <2>5 DEF BeginDiagnose, Asked, Loaded, TypeOK
    <3> QED BY <2>1, <2>2, <2>5, <3>1 DEF CountInv
  <2> QED BY <2>4, <2>5
<1>11. ASSUME NEW fs \in SUBSET Files, PluginsChanged(fs) PROVE CountInv'
  BY <1>11 DEF PluginsChanged, CountInv, Asked, Loaded
<1>12. CASE UNCHANGED vars
  BY <1>12 DEF vars, CountInv, Asked, Loaded
<1> QED BY <1>3, <1>4, <1>5, <1>6, <1>7, <1>8, <1>9, <1>10, <1>11, <1>12 DEF Next

-----------------------------------------------------------------------------

LEMMA FreshStep ==
    ASSUME TypeOK, TypeOK', FreshInv, [Next]_vars
    PROVE  FreshInv'
<1>1. ASSUME NEW f \in Files, Outdated(f), needs' = needs \cup {f}, UNCHANGED <<owner, open>>
      PROVE  FreshInv'
  <2> SUFFICES ASSUME NEW g \in open \ needs', NEW p \in Providers, owner[p] = g
               PROVE  p \in known' \/ query'[p] = "current"
    BY <1>1 DEF FreshInv, Loaded
  <2>1. g \in open \ needs /\ g # f
    BY <1>1
  <2>2. p \in known \/ query[p] = "current"
    BY <2>1 DEF FreshInv, Loaded
  <2> QED BY <1>1, <2>1, <2>2, OutdatedEffect
<1>2. ASSUME NEW f \in Files, NEW removed \in SUBSET Providers,
             NEW added \in SUBSET Providers, Swap(f, removed, added),
             \/ f \notin open' /\ needs \subseteq needs' \cup {f} /\ open' \subseteq open
             \/ f \in needs' /\ needs \subseteq needs' /\ open' \subseteq open \cup {f}
             \/ added = {} /\ UNCHANGED <<open, needs>>,
             query' = query
      PROVE  FreshInv'
  <2>0. \A p \in Providers : owner'[p] # owner[p] \/ p \in removed \cup added =>
           owner'[p] = NoFile \/ (p \in added /\ owner'[p] = f)
    <3>1. Swap(f, removed, added)
      BY <1>2
    <3>2. \A p \in Providers : owner'[p] # owner[p] \/ p \in removed \cup added =>
             \/ owner[p] = f /\ p \in removed /\ owner'[p] = NoFile
             \/ owner[p] = NoFile /\ query[p] = "none" /\ p \in added /\ owner'[p] = f
      BY <3>1, SwapEffect, Zenon
    <3> QED BY <3>2
  <2> SUFFICES ASSUME NEW g \in open' \ needs', NEW p \in Providers, owner'[p] = g
               PROVE  p \in known' \/ query[p] = "current"
    BY <1>2 DEF FreshInv, Loaded
  <2>1. g # NoFile
    BY DiagnosticsAssumption DEF TypeOK
  <2>2. g # f \/ added = {}
    BY <1>2
  <2>3. owner'[p] = owner[p] /\ p \notin added
    BY <2>0, <2>1, <2>2
  <2>4. g \in open \ needs
    BY <1>2
  <2>5. p \in known \/ query[p] = "current"
    BY <2>3, <2>4 DEF FreshInv, Loaded
  <2>6. known' = known \ added
    BY <1>2 DEF Swap
  <2> QED BY <2>3, <2>5, <2>6
<1>3. ASSUME NEW f \in Files, FileChanged(f) \/ LanguageChanged(f) PROVE FreshInv'
  BY <1>1, <1>3 DEF FileChanged, LanguageChanged, QueueDiagnose
<1>4. ASSUME NEW f \in Files, FileClosed(f) PROVE FreshInv'
  <2>1. Loaded(f) \in SUBSET Providers
    BY DEF Loaded
  <2>2. f \notin open' /\ needs \subseteq needs' \cup {f} /\ open' \subseteq open
    BY <1>4 DEF FileClosed
  <2> QED BY <1>2, <1>4, <2>1, <2>2 DEF FileClosed
<1>5. ASSUME NEW f \in Files, NEW added \in SUBSET Providers, FileOpened(f, added)
      PROVE  FreshInv'
  <2>1. f \in needs' /\ needs \subseteq needs' /\ open' \subseteq open \cup {f}
    BY <1>5 DEF FileOpened, QueueDiagnose
  <2> QED BY <1>2, <1>5, <2>1 DEF FileOpened
<1>6. ASSUME NEW f \in Files, NEW removed \in SUBSET Providers,
             NEW added \in SUBSET Providers, Reload(f, removed, added)
      PROVE  FreshInv'
  <2>1. \/ f \in needs' /\ needs \subseteq needs' /\ open' \subseteq open \cup {f}
        \/ added = {} /\ UNCHANGED <<open, needs>>
    BY <1>6 DEF Reload, QueueDiagnose
  <2> QED BY <1>2, <1>6, <2>1 DEF Reload
<1>7. ASSUME NEW f \in Files, NEW p \in Providers, PluginUnloaded(f, p) PROVE FreshInv'
  BY <1>2, <1>7 DEF PluginUnloaded
<1>8. ASSUME NEW p \in Providers, ProviderInvalidated(p) PROVE FreshInv'
  <2>1. owner[p] \in needs'
    BY <1>8 DEF ProviderInvalidated, QueueDiagnose
  <2>2. /\ needs \subseteq needs' /\ UNCHANGED <<open, owner>> /\ known' = known \ {p}
        /\ \A q \in Providers : q # p => query'[q] = query[q]
    BY <1>8 DEF ProviderInvalidated, QueueDiagnose, TypeOK
  <2> QED BY <2>1, <2>2 DEF FreshInv, Loaded
<1>9. ASSUME NEW p \in Providers, NEW found \in SUBSET Files, DiagnoseCb(p, found)
      PROVE  FreshInv'
  <2>1. /\ \A q \in Providers : q # p => query'[q] = query[q]
        /\ known \subseteq known' /\ UNCHANGED <<open, owner, needs>>
        /\ owner[p] # NoFile /\ query[p] = "current" => p \in known'
    BY <1>9 DEF DiagnoseCb, TypeOK
  <2>2. \A f \in open : f # NoFile
    BY DiagnosticsAssumption DEF TypeOK
  <2> QED BY <2>1, <2>2 DEF FreshInv, Loaded
<1>10. ASSUME BeginDiagnose PROVE FreshInv'
  <2>1. \A p \in Providers : query'[p] = IF owner[p] \in Ready THEN "current" ELSE query[p]
    BY <1>10 DEF BeginDiagnose
  <2>2. needs' = needs \ Ready /\ UNCHANGED <<open, owner, known>>
    BY <1>10 DEF BeginDiagnose
  <2> QED BY <2>1, <2>2 DEF FreshInv, Loaded
<1>11. ASSUME NEW fs \in SUBSET Files, PluginsChanged(fs) PROVE FreshInv'
  BY <1>11 DEF PluginsChanged, FreshInv, Loaded
<1>12. CASE UNCHANGED vars
  BY <1>12 DEF vars, FreshInv, Loaded
<1> QED BY <1>3, <1>4, <1>5, <1>6, <1>7, <1>8, <1>9, <1>10, <1>11, <1>12 DEF Next

-----------------------------------------------------------------------------

LEMMA LeftoversStep ==
    ASSUME TypeOK, NoLeftovers, [Next]_vars
    PROVE  NoLeftovers'
<1>1. ASSUME NEW f \in Files, NEW removed \in SUBSET Providers,
             NEW added \in SUBSET Providers, Swap(f, removed, added)
      PROVE  NoLeftovers'
  <2> SUFFICES ASSUME NEW g \in Files, NEW p \in shown'[g]
               PROVE  owner'[p] # NoFile
    BY DEF NoLeftovers
  <2>1. p \in shown[g] /\ p \notin removed
    BY <1>1 DEF Swap, Unload
  <2>2. p \in Providers /\ owner[p] # NoFile
    BY <2>1 DEF NoLeftovers, TypeOK
  <2> QED BY <1>1, <2>1, <2>2, SwapEffect
<1>2. ASSUME UNCHANGED <<owner, shown>> PROVE NoLeftovers'
  BY <1>2 DEF NoLeftovers
<1>3. ASSUME NEW f \in Files, FileChanged(f) \/ LanguageChanged(f) PROVE NoLeftovers'
  BY <1>2, <1>3 DEF FileChanged, LanguageChanged
<1>4. ASSUME NEW f \in Files, FileClosed(f) PROVE NoLeftovers'
  <2>1. Loaded(f) \in SUBSET Providers
    BY DEF Loaded
  <2> QED BY <1>1, <1>4, <2>1 DEF FileClosed
<1>5. ASSUME NEW f \in Files, NEW added \in SUBSET Providers, FileOpened(f, added)
      PROVE  NoLeftovers'
  BY <1>1, <1>5 DEF FileOpened
<1>6. ASSUME NEW f \in Files, NEW removed \in SUBSET Providers,
             NEW added \in SUBSET Providers, Reload(f, removed, added)
      PROVE  NoLeftovers'
  BY <1>1, <1>6 DEF Reload
<1>7. ASSUME NEW f \in Files, NEW p \in Providers, PluginUnloaded(f, p) PROVE NoLeftovers'
  BY <1>1, <1>7 DEF PluginUnloaded
<1>8. ASSUME NEW p \in Providers, NEW found \in SUBSET Files, DiagnoseCb(p, found)
      PROVE  NoLeftovers'
  <2>1. CASE owner[p] = NoFile
    BY <1>2, <1>8, <2>1 DEF DiagnoseCb
  <2>2. CASE owner[p] # NoFile
    <3>1. \A g \in Files : shown'[g] \subseteq shown[g] \cup {p}
      BY <1>8, <2>2 DEF DiagnoseCb
    <3>2. owner' = owner
      BY <1>8 DEF DiagnoseCb
    <3> QED BY <2>2, <3>1, <3>2 DEF NoLeftovers
  <2> QED BY <2>1, <2>2
<1>9. ASSUME \/ BeginDiagnose \/ UNCHANGED vars
             \/ \E p \in Providers : ProviderInvalidated(p)
             \/ \E fs \in SUBSET Files : PluginsChanged(fs)
      PROVE  NoLeftovers'
  BY <1>2, <1>9 DEF BeginDiagnose, vars, ProviderInvalidated, PluginsChanged
<1> QED BY <1>3, <1>4, <1>5, <1>6, <1>7, <1>8, <1>9 DEF Next

-----------------------------------------------------------------------------

LEMMA IInvInit == Init => IInv /\ NoLeftovers
<1> SUFFICES ASSUME Init PROVE IInv /\ NoLeftovers
  OBVIOUS
<1>1. Cardinality(Providers) \in Nat
  BY DiagnosticsAssumption, FS_CardinalityType
<1>2. TypeOK
  <2>1. 0 \in 0..Cardinality(Providers)
    BY <1>1
  <2>2. inDiagnose \in [Files -> 0..Cardinality(Providers)]
    BY <2>1 DEF Init
  <2> QED BY <2>2 DEF Init, TypeOK
<1>3. \A f \in Files : Asked(f) = {}
  BY DEF Init, Asked, Loaded
<1>4. CountInv
  BY <1>3, FS_EmptySet DEF Init, CountInv
<1>5. FreshInv /\ NoLeftovers
  BY DEF Init, FreshInv, NoLeftovers
<1> QED BY <1>2, <1>4, <1>5 DEF IInv

LEMMA IInvStep == IInv /\ [Next]_vars => IInv'
BY TypeStep, CountStep, FreshStep DEF IInv

\* The variables keep their types: in particular in_diagnose, an unsigned
\* counter that every answer decrements, never wraps.
THEOREM TypeCorrect == Spec => []TypeOK
<1>1. Init => IInv
  BY IInvInit
<1>2. IInv /\ [Next]_vars => IInv'
  BY IInvStep
<1>3. IInv => TypeOK
  BY DEF IInv
<1> QED BY <1>1, <1>2, <1>3, PTL DEF Spec

\* When nothing is asked, and nothing is to be, the answers of all the providers
\* a file has are about the file as it is.
THEOREM SettledHolds == Spec => []Settled
<1>1. Init => IInv
  BY IInvInit
<1>2. IInv /\ [Next]_vars => IInv'
  BY IInvStep
<1>3. IInv => Settled
  <2> SUFFICES ASSUME IInv, NEW f \in open, f \notin needs, inDiagnose[f] = 0,
                      NEW p \in Loaded(f)
               PROVE  p \in known
    BY DEF Settled
  <2>1. f \in Files /\ Asked(f) \in SUBSET Providers
    BY DEF IInv, TypeOK, Asked, Loaded
  <2>2. Cardinality(Asked(f)) <= 0
    BY <2>1 DEF IInv, CountInv
  <2>3. IsFiniteSet(Asked(f)) /\ Cardinality(Asked(f)) \in Nat
    BY <2>1, Counts
  <2>4. Asked(f) = {}
    BY <2>2, <2>3, FS_EmptySet
  <2>5. query[p] = "none"
    BY <2>4 DEF Asked
  <2> QED BY <2>5 DEF IInv, FreshInv
<1> QED BY <1>1, <1>2, <1>3, PTL DEF Spec

\* No file shows what an unloaded provider has found.
THEOREM NoLeftoversHold == Spec => []NoLeftovers
<1>1. Init => IInv /\ NoLeftovers
  BY IInvInit
<1>2. IInv /\ NoLeftovers /\ [Next]_vars => IInv' /\ NoLeftovers'
  BY IInvStep, LeftoversStep DEF IInv
<1> QED BY <1>1, <1>2, PTL DEF Spec

=============================================================================
