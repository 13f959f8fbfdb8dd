---------------------------- MODULE PagesProofs -----------------------------
(***************************************************************************)
(* Theorems about Pages for any meters, ranges, findings and numbers of     *)
(* analyses and turns.                                                      *)
(***************************************************************************)
EXTENDS Pages, TLAPS

SafePages == Init /\ [][Next]_vars

\* Spec without its fairness.
LEMMA SpecIsSafe == Spec => SafePages
BY PTL DEF Spec, SafePages

-----------------------------------------------------------------------------
(* The inductive invariant.                                                 *)

Paths == Seq(Int)
Hooks == [path : Paths, data : [path : Paths, value : Nat], pc : {"off", "sent", "answered"},
          value : Nat, error : BOOLEAN]
ListHooks == Lists \ {"meter"}

Types ==
    /\ last \in [Meters -> Nat]
    /\ found \in Seq([Meters -> Nat])
    /\ mine \subseteq 1..Completed
    /\ announced \in {0} \cup mine
    /\ page \in AllPages /\ days \in Nat /\ faults \in Nat

\* An analysis found nothing later than the last reading of a meter.
ReadingsFirst ==
    \A m \in Meters : last[m] >= Start /\ \A a \in 1..Completed : found[a][m] <= last[m]

\* Off without an error, the data is of the path.
Settled(k) ==
    /\ k.path = Null => k.pc = "off"
    /\ k.error => k.pc = "off"
    /\ k.path # Null /\ k.pc = "off" /\ ~ k.error => k.data.path = k.path

\* A list is of a completed analysis, and not older than what was announced
\* since it was asked for.
NotOlder(k) ==
    /\ k.value <= Completed /\ k.data.value <= Completed
    /\ k.path # Null /\ ~ k.error =>
          /\ k.pc = "answered" => k.value >= announced
          /\ k.pc = "off" => k.data.value >= announced

\* The last reading is not older than what the announced analysis found.
Covers(m, at) == announced # 0 => found[announced][m] <= at
UpToDate(k, m) ==
    /\ k.pc = "answered" => k.value >= Start
    /\ k.data.path # Null => k.data.value >= Start
    /\ k.path = <<m>> /\ ~ k.error =>
          /\ k.pc = "answered" => Covers(m, k.value)
          /\ k.pc = "off" => Covers(m, k.data.value)

\* The anomaly on screen is one that an analysis found.
Found(k) ==
    k.data.path # Null =>
        \E a \in 1..Completed, m \in Meters :
            k.data.path = <<a, m>> /\ k.data.value = found[a][m] /\ found[a][m] # None

HookOf(h, k, p) ==
    /\ k \in Hooks
    /\ Settled(k)
    /\ h \in ListHooks => NotOlder(k)
    /\ h = "meter" => UpToDate(k, p[2])
    /\ h = "detail" => Found(k)

\* An error that no failure explains is the refusal of a range.
Refused(k) == k.error /\ k.path # Null => Len(k.path) = 3 /\ ~ RangeAccepted(k.path)

\* The path of every hook is the one that a render would give it.
Synced == \A h \in HooksOf(page) : fetch[h].path = PathOf(h, fetch, page, days)

IInv ==
    /\ Types /\ ReadingsFirst
    /\ fetch = [h \in HooksOf(page) |-> fetch[h]]
    /\ \A h \in HooksOf(page) : HookOf(h, fetch[h], page)
    /\ Synced
    /\ faults = 0 => \A h \in HooksOf(page) : Refused(fetch[h])

-----------------------------------------------------------------------------
(* Pages and paths.                                                         *)

LEMMA Tuples ==
  /\ Len(Null) = 0 /\ Null \in Paths
  /\ Len(<<0>>) = 1 /\ \A m : <<m>> # Null
  /\ \A a \in Int : Len(<<a>>) = 1 /\ <<a>> \in Paths /\ <<a>> # Null
  /\ \A a, b \in Int : Len(<<a, b>>) = 2 /\ <<a, b>> \in Paths /\ <<a, b>> # Null /\ <<a, b>>[1] = a /\ <<a, b>>[2] = b
  /\ \A a, b, c \in Int : /\ Len(<<a, b, c>>) = 3 /\ <<a, b, c>> \in Paths /\ <<a, b, c>> # Null
                          /\ <<a, b, c>>[2] = b /\ <<a, b, c>>[3] = c
BY DEF Null, Paths

LEMMA PageKinds ==
  ASSUME NEW p \in AllPages
  PROVE  \/ p = Dashboard /\ HooksOf(p) = {"summary", "anomalies", "fleet"}
         \/ p = Anomalies /\ HooksOf(p) = {"anomalies", "header"}
         \/ /\ p[1] = "meter" /\ p[2] \in Meters /\ p # Dashboard /\ p # Anomalies
            /\ HooksOf(p) = {"meter", "anomalies", "detail", "readings", "events", "before", "after"}
BY DEF AllPages, HooksOf, Dashboard, Anomalies, Detail

LEMMA MeterPages ==
  /\ \A m \in Meters : Detail(m)[1] = "meter" /\ Detail(m)[2] = m /\ Detail(m) \in AllPages /\ m \in Nat
  /\ Dashboard[1] # "meter" /\ Anomalies[1] # "meter" /\ Dashboard # Anomalies
BY PagesBounds DEF AllPages, Detail, Dashboard, Anomalies

\* The path of the anomaly in the list, if the analysis found one.
LEMMA MainIs ==
  ASSUME NEW f, f.anomalies.data.value \in Nat, f.anomalies.data.value <= Completed, NEW m \in Meters
  PROVE  \/ Main(f, m) = Null
         \/ /\ Main(f, m) = <<f.anomalies.data.value, m>>
            /\ f.anomalies.data.value \in 1..Completed
            /\ found[f.anomalies.data.value][m] # None
BY DEF Main

\* The paths of the ranges, from the last reading and the change.
LEMMA RangePaths ==
  ASSUME NEW m, NEW at, NEW change, NEW span
  PROVE  /\ RangePath("readings", m, at, change, span) = <<m, at + 1 - span, at + 1>>
         /\ RangePath("events", m, at, change, span) = <<m, at + 1 - FullSpan, at + 1>>
         /\ RangePath("before", m, at, change, span) = <<m, at + 1 - FullSpan, IF change = None THEN at + 1 ELSE change>>
         /\ RangePath("after", m, at, change, span) = IF change = None THEN Null ELSE <<m, change, at + 1>>
BY DEF RangePath, RangeEndingAt

RangeHooks == {"readings", "events", "before", "after"}

LEMMA RangeShape ==
  ASSUME NEW h \in RangeHooks, NEW m \in Int, NEW at \in Nat, NEW change \in Nat, NEW span \in Nat
  PROVE  /\ RangePath(h, m, at, change, span) \in Paths
         /\ RangePath(h, m, at, change, span) = Null \/ Len(RangePath(h, m, at, change, span)) = 3
<1>1. at + 1 \in Int /\ at + 1 - span \in Int /\ at + 1 - FullSpan \in Int /\ change \in Int
  BY PagesBounds
<1>2. RangePath(h, m, at, change, span) = Null \/ \E a, b \in Int : RangePath(h, m, at, change, span) = <<m, a, b>>
  BY <1>1, RangePaths DEF RangeHooks
<1>3. QED
  BY <1>2, Tuples

\* What a path looks like tells the hook.
LEMMA PathShape ==
  ASSUME Types, NEW p \in AllPages, NEW h \in HooksOf(p), NEW f, NEW span \in Nat,
         \A g \in HooksOf(p) : f[g].data.value \in Nat, f.anomalies.data.value <= Completed
  PROVE  /\ PathOf(h, f, p, span) \in Paths
         /\ h \in ListHooks => PathOf(h, f, p, span) = <<0>>
         /\ h = "meter" => PathOf(h, f, p, span) = <<p[2]>>
         /\ h = "header" => PathOf(h, f, p, span) = Null \/ Len(PathOf(h, f, p, span)) = 1
         /\ h = "detail" => PathOf(h, f, p, span) = Main(f, p[2])
         /\ h \notin Lists \cup {"header", "detail"} => PathOf(h, f, p, span) = Null \/ Len(PathOf(h, f, p, span)) = 3
<1>1. CASE p = Dashboard
  BY <1>1, PageKinds, MeterPages, Tuples DEF PathOf, Lists, ListHooks
<1>2. CASE p = Anomalies
  <2>1. f.anomalies.data.value \in Nat
    BY <1>2, PageKinds, MeterPages
  <2>2. h \in {"anomalies", "header"} /\ PathOf(h, f, p, span) = AnomaliesPath(h, f)
    BY <1>2, PageKinds, MeterPages DEF PathOf
  <2>3. QED
    BY <2>1, <2>2, Tuples DEF AnomaliesPath, Lists, ListHooks
<1>3. CASE p[1] = "meter" /\ p[2] \in Meters /\ p # Dashboard /\ p # Anomalies
           /\ HooksOf(p) = {"meter", "anomalies", "detail", "readings", "events", "before", "after"}
  <2>1. /\ f.anomalies.data.value \in Nat /\ f.meter.data.value \in Nat /\ f.detail.data.value \in Nat
        /\ p[2] \in Int
    BY <1>3, PagesBounds
  <2>2. PathOf(h, f, p, span) = DetailPath(h, f, p[2], span)
    BY <1>3 DEF PathOf
  <2>3. Main(f, p[2]) = Null \/ Main(f, p[2]) = <<f.anomalies.data.value, p[2]>>
    BY <1>3, <2>1, MainIs
  <2>4. CASE h \in {"meter", "anomalies", "detail"}
    <3>1. DetailPath(h, f, p[2], span) = IF h = "meter" THEN <<p[2]>> ELSE IF h = "anomalies" THEN <<0>> ELSE Main(f, p[2])
      BY <2>4 DEF DetailPath
    <3>2. Main(f, p[2]) \in Paths /\ <<p[2]>> \in Paths /\ <<0>> \in Paths
      BY <2>1, <2>3, Tuples
    <3>3. QED
      BY <2>2, <2>4, <3>1, <3>2 DEF Lists, ListHooks
  <2>5. CASE h \in RangeHooks
    <3>1. LastReadingAt(f) \in Nat /\ ChangeAt(f) \in Nat
      BY <2>1 DEF LastReadingAt, ChangeAt
    <3>2. /\ RangePath(h, p[2], LastReadingAt(f), ChangeAt(f), span) \in Paths
          /\ \/ RangePath(h, p[2], LastReadingAt(f), ChangeAt(f), span) = Null
             \/ Len(RangePath(h, p[2], LastReadingAt(f), ChangeAt(f), span)) = 3
      BY <2>1, <2>5, <3>1, RangeShape
    <3>3. \/ DetailPath(h, f, p[2], span) = Null
          \/ DetailPath(h, f, p[2], span) = RangePath(h, p[2], LastReadingAt(f), ChangeAt(f), span)
      BY <2>5 DEF DetailPath, RangeHooks
    <3>4. QED
      BY <2>2, <2>5, <3>2, <3>3, Tuples DEF Lists, ListHooks, RangeHooks
  <2>6. QED
    BY <1>3, <2>4, <2>5 DEF RangeHooks
<1>4. QED
  BY <1>1, <1>2, <1>3, PageKinds

\* A path depends on the data of the hooks only.
LEMMA PathOfData ==
  ASSUME NEW p \in AllPages, NEW h \in HooksOf(p), NEW f, NEW g, NEW span,
         \A k \in HooksOf(p) : f[k].data = g[k].data
  PROVE  PathOf(h, f, p, span) = PathOf(h, g, p, span)
<1>1. CASE p = Dashboard
  BY <1>1, MeterPages DEF PathOf
<1>2. CASE p = Anomalies
  <2>1. f.anomalies.data = g.anomalies.data
    BY <1>2, PageKinds, MeterPages
  <2>2. QED
    BY <1>2, <2>1, MeterPages DEF PathOf, AnomaliesPath
<1>3. CASE p # Dashboard /\ p # Anomalies
           /\ HooksOf(p) = {"meter", "anomalies", "detail", "readings", "events", "before", "after"}
  <2>1. f.anomalies.data = g.anomalies.data /\ f.meter.data = g.meter.data /\ f.detail.data = g.detail.data
    BY <1>3
  <2>2. /\ Main(f, p[2]) = Main(g, p[2]) /\ LastReadingAt(f) = LastReadingAt(g) /\ ChangeAt(f) = ChangeAt(g)
    BY <2>1 DEF Main, LastReadingAt, ChangeAt
  <2>3. QED
    BY <1>3, <2>2 DEF PathOf, DetailPath
<1>4. QED
  BY <1>1, <1>2, <1>3, PageKinds

-----------------------------------------------------------------------------
(* The hooks.                                                               *)

\* A hook that is left alone, stopped because it has no path, or asks anew.
Kept(k, j) == j = k
Stopped(k, j) == j = [k EXCEPT !.path = Null, !.pc = "off"]
Sent(k, j, path) == path # Null /\ j = [k EXCEPT !.path = path, !.pc = "sent", !.error = FALSE]

LEMMA HookFields ==
  ASSUME NEW k \in Hooks
  PROVE  /\ k.path \in Paths /\ k.data \in [path : Paths, value : Nat] /\ k.value \in Nat
         /\ k.data.path \in Paths /\ k.data.value \in Nat
         /\ k.error \in BOOLEAN /\ k.pc \in {"off", "sent", "answered"}
BY DEF Hooks

\* Neither of them changes the data, the value or the type.
LEMMA HookMoves ==
  ASSUME NEW k \in Hooks, NEW path \in Paths, NEW j, Kept(k, j) \/ Stopped(k, j) \/ Sent(k, j, path)
  PROVE  /\ j \in Hooks /\ j.data = k.data /\ j.value = k.value
         /\ Stopped(k, j) => j.path = Null /\ j.pc = "off" /\ j.error = k.error
         /\ Sent(k, j, path) => j.path = path /\ j.pc = "sent" /\ ~ j.error
<1>1. Null \in Paths
  BY Tuples
<1>2. QED
  BY <1>1 DEF Hooks, Kept, Stopped, Sent

LEMMA MovesKeepHook ==
  ASSUME NEW h, NEW p, NEW k, HookOf(h, k, p), NEW path \in Paths, NEW j,
         Kept(k, j) \/ Stopped(k, j) \/ Sent(k, j, path)
  PROVE  /\ HookOf(h, j, p)
         /\ Refused(k) => Refused(j)
<1>1. k \in Hooks /\ j \in Hooks /\ j.data = k.data /\ j.value = k.value
  BY HookMoves DEF HookOf
<1>2. CASE Kept(k, j)
  BY <1>2 DEF Kept
<1>3. CASE Stopped(k, j)
  <2>1. j.path = Null /\ j.pc = "off" /\ j.error = k.error
    BY <1>1, <1>3, HookMoves
  <2>2. p[2] = p[2] /\ \A m : <<m>> # Null
    BY DEF Null
  <2>3. Settled(j) /\ Refused(j)
    BY <2>1 DEF Settled, Refused
  <2>4. NotOlder(k) => NotOlder(j)
    BY <1>1, <2>1 DEF NotOlder
  <2>5. UpToDate(k, p[2]) => UpToDate(j, p[2])
    BY <1>1, <2>1, <2>2 DEF UpToDate
  <2>6. Found(k) => Found(j)
    BY <1>1 DEF Found
  <2>7. QED
    BY <1>1, <2>3, <2>4, <2>5, <2>6 DEF HookOf
<1>4. CASE Sent(k, j, path)
  <2>1. j.path = path /\ path # Null /\ j.pc = "sent" /\ ~ j.error
    BY <1>1, <1>4, HookMoves DEF Sent
  <2>2. Settled(j) /\ Refused(j)
    BY <2>1 DEF Settled, Refused
  <2>3. NotOlder(k) => NotOlder(j)
    BY <1>1, <2>1 DEF NotOlder
  <2>4. UpToDate(k, p[2]) => UpToDate(j, p[2])
    BY <1>1, <2>1 DEF UpToDate
  <2>5. Found(k) => Found(j)
    BY <1>1 DEF Found
  <2>6. QED
    BY <1>1, <2>2, <2>3, <2>4, <2>5 DEF HookOf
<1>5. QED
  BY <1>2, <1>3, <1>4

LEMMA EffectMoves ==
  ASSUME NEW k \in Hooks, NEW path \in Paths
  PROVE  /\ Kept(k, Effect(k, path)) \/ Stopped(k, Effect(k, path)) \/ Sent(k, Effect(k, path), path)
         /\ Effect(k, path).path = path
<1>1. CASE path = k.path
  BY <1>1 DEF Effect, Kept
<1>2. CASE path # k.path /\ path = Null
  BY <1>2 DEF Effect, Stopped, Hooks
<1>3. CASE path # k.path /\ path # Null
  BY <1>3 DEF Effect, Sent, Hooks
<1>4. QED
  BY <1>1, <1>2, <1>3

LEMMA ExecuteMoves ==
  ASSUME NEW k \in Hooks
  PROVE  /\ (Kept(k, Execute(k)) /\ k.path = Null) \/ Sent(k, Execute(k), k.path)
         /\ Execute(k).path = k.path /\ Execute(k).data = k.data
BY DEF Execute, Kept, Sent, Hooks

\* The render: every hook has the path of the data, which stays.
LEMMA RenderSyncs ==
  ASSUME Types, NEW p \in AllPages, NEW span \in Nat, NEW f,
         \A h \in HooksOf(p) : HookOf(h, f[h], p), f.anomalies.data.value <= Completed,
         NEW g, g = Render(f, p, span)
  PROVE  /\ \A h \in HooksOf(p) : /\ HookOf(h, g[h], p)
                                  /\ g[h].path = PathOf(h, g, p, span)
                                  /\ Refused(f[h]) => Refused(g[h])
         /\ g = [h \in HooksOf(p) |-> g[h]]
<1>1. \A h \in HooksOf(p) : f[h] \in Hooks /\ f[h].data.value \in Nat
  BY HookFields DEF HookOf
<1>2. \A h \in HooksOf(p) : g[h] = Effect(f[h], PathOf(h, f, p, span))
  BY DEF Render
<1>3. \A h \in HooksOf(p) : PathOf(h, f, p, span) \in Paths
  BY <1>1, PathShape
<1>4. \A h \in HooksOf(p) : f[h].data = g[h].data
  BY <1>1, <1>2, <1>3, EffectMoves, HookMoves
<1>5. ASSUME NEW h \in HooksOf(p)
      PROVE  HookOf(h, g[h], p) /\ g[h].path = PathOf(h, g, p, span) /\ (Refused(f[h]) => Refused(g[h]))
  <2>1. g[h].path = PathOf(h, f, p, span)
    BY <1>1, <1>2, <1>3, EffectMoves
  <2>2. PathOf(h, f, p, span) = PathOf(h, g, p, span)
    BY <1>4, PathOfData
  <2>3. HookOf(h, g[h], p) /\ (Refused(f[h]) => Refused(g[h]))
    BY <1>1, <1>2, <1>3, EffectMoves, MovesKeepHook
  <2>4. QED
    BY <2>1, <2>2, <2>3
<1>6. g = [h \in HooksOf(p) |-> g[h]]
  BY DEF Render
<1>7. QED
  BY <1>5, <1>6

\* The lists asked for again keep the paths and the data.
LEMMA RefreshSyncs ==
  ASSUME NEW p \in AllPages, NEW span \in Nat, NEW f, f = [h \in HooksOf(p) |-> f[h]],
         \A h \in HooksOf(p) : HookOf(h, f[h], p) /\ f[h].path = PathOf(h, f, p, span),
         NEW g, g = Refreshed(f)
  PROVE  /\ \A h \in HooksOf(p) : /\ HookOf(h, g[h], p)
                                  /\ g[h].path = PathOf(h, g, p, span)
                                  /\ Refused(f[h]) => Refused(g[h])
         /\ g = [h \in HooksOf(p) |-> g[h]]
<1>1. DOMAIN f = HooksOf(p)
  OBVIOUS
<1>2. \A h \in HooksOf(p) : g[h] = IF h \in Lists THEN Execute(f[h]) ELSE f[h]
  BY <1>1 DEF Refreshed
<1>3. ASSUME NEW h \in HooksOf(p)
      PROVE  /\ HookOf(h, g[h], p) /\ (Refused(f[h]) => Refused(g[h]))
             /\ g[h].path = f[h].path /\ g[h].data = f[h].data
  <2>1. HookOf(h, f[h], p) /\ f[h] \in Hooks /\ f[h].path \in Paths
    BY HookFields DEF HookOf
  <2>2. CASE h \in Lists
    <3>1. g[h] = Execute(f[h])
      BY <1>2, <2>2
    <3>2. Kept(f[h], g[h]) \/ Sent(f[h], g[h], f[h].path)
      BY <2>1, <3>1, ExecuteMoves
    <3>3. g[h].path = f[h].path /\ g[h].data = f[h].data
      BY <2>1, <3>1, ExecuteMoves
    <3>4. QED
      BY <2>1, <3>2, <3>3, MovesKeepHook
  <2>3. CASE h \notin Lists
    BY <1>2, <2>1, <2>3
  <2>4. QED
    BY <2>2, <2>3
<1>4. \A h \in HooksOf(p) : PathOf(h, f, p, span) = PathOf(h, g, p, span)
  BY <1>3, PathOfData
<1>5. g = [h \in HooksOf(p) |-> g[h]]
  BY <1>1 DEF Refreshed
<1>6. QED
  BY <1>3, <1>4, <1>5

-----------------------------------------------------------------------------
(* Steps that render.                                                       *)

\* What is said of a hook depends on the analyses found and announced.
LEMMA SameHooks ==
  ASSUME UNCHANGED <<found, announced, page, fetch>>, NEW h \in HooksOf(page), HookOf(h, fetch[h], page)
  PROVE  HookOf(h, fetch[h], page)'
BY DEF HookOf, NotOlder, UpToDate, Covers, Found, Settled, Completed

LEMMA HooksAfter ==
  ASSUME UNCHANGED <<found, announced>>, NEW h, HookOf(h, fetch'[h], page')
  PROVE  HookOf(h, fetch[h], page)'
BY DEF HookOf, NotOlder, UpToDate, Covers, Found, Settled, Completed

LEMMA AnomaliesEverywhere ==
  ASSUME NEW p \in AllPages, NEW f, \A h \in HooksOf(p) : HookOf(h, f[h], p)
  PROVE  "anomalies" \in HooksOf(p) /\ f.anomalies \in Hooks /\ NotOlder(f.anomalies) /\ f.anomalies.data.value <= Completed
<1>1. "anomalies" \in HooksOf(p) /\ "anomalies" \in ListHooks
  BY PageKinds DEF Lists, ListHooks
<1>2. QED
  BY <1>1 DEF HookOf, NotOlder

LEMMA SameServer ==
  ASSUME Types, ReadingsFirst, UNCHANGED <<server, announced>>
  PROVE  ReadingsFirst' /\ Completed' = Completed
BY DEF server, ReadingsFirst, Completed

LEMMA RenderStep ==
  ASSUME IInv, NEW f, UNCHANGED <<server, announced>>, page' \in AllPages, days' \in Nat, faults' \in Nat,
         fetch' = Render(f, page', days') \/ fetch' = Refreshed(Render(f, page', days')),
         \A h \in HooksOf(page') : HookOf(h, f[h], page'),
         faults' = 0 => \A h \in HooksOf(page') : Refused(f[h])
  PROVE  IInv'
<1>1. Types /\ ReadingsFirst
  BY DEF IInv
<1>2. Types' /\ ReadingsFirst'
  BY <1>1, SameServer DEF Types, server
<1>3. f.anomalies.data.value <= Completed
  BY AnomaliesEverywhere
<1>4. /\ \A h \in HooksOf(page') : /\ HookOf(h, fetch'[h], page')
                                   /\ fetch'[h].path = PathOf(h, fetch', page', days')
                                   /\ Refused(f[h]) => Refused(fetch'[h])
      /\ fetch' = [h \in HooksOf(page') |-> fetch'[h]]
  <2> DEFINE r == Render(f, page', days')
  <2>1. /\ \A h \in HooksOf(page') : /\ HookOf(h, r[h], page')
                                     /\ r[h].path = PathOf(h, r, page', days')
                                     /\ Refused(f[h]) => Refused(r[h])
        /\ r = [h \in HooksOf(page') |-> r[h]]
    BY <1>1, <1>3, RenderSyncs
  <2>2. fetch' = r \/ fetch' = Refreshed(r)
    OBVIOUS
  <2> HIDE DEF r
  <2>3. CASE fetch' = r
    BY <2>1, <2>3
  <2>4. CASE fetch' = Refreshed(r)
    <3>1. /\ \A h \in HooksOf(page') : /\ HookOf(h, fetch'[h], page')
                                       /\ fetch'[h].path = PathOf(h, fetch', page', days')
                                       /\ Refused(r[h]) => Refused(fetch'[h])
          /\ fetch' = [h \in HooksOf(page') |-> fetch'[h]]
      BY <2>1, <2>4, RefreshSyncs
    <3>2. QED
      BY <2>1, <3>1
  <2>5. QED
    BY <2>2, <2>3, <2>4
<1>5. \A h \in HooksOf(page') : HookOf(h, fetch[h], page)'
  BY <1>4, HooksAfter DEF server
<1>6. Synced'
  <2>1. \A h \in HooksOf(page') : PathOf(h, fetch', page', days') = PathOf(h, fetch, page, days)'
    BY DEF server, PathOf, AnomaliesPath, DetailPath, Main, LastReadingAt, ChangeAt
  <2>2. QED
    BY <1>4, <2>1 DEF Synced
<1>7. faults' = 0 => \A h \in HooksOf(page') : Refused(fetch'[h])
  BY <1>4
<1>8. QED
  BY <1>2, <1>4, <1>5, <1>6, <1>7 DEF IInv

LEMMA IInvHooks ==
  ASSUME IInv
  PROVE  /\ Types /\ page \in AllPages /\ days \in Nat /\ faults \in Nat /\ DOMAIN fetch = HooksOf(page)
         /\ \A h \in HooksOf(page) : /\ HookOf(h, fetch[h], page) /\ fetch[h] \in Hooks
                                     /\ fetch[h].path = PathOf(h, fetch, page, days)
                                     /\ PathOf(h, fetch, page, days) \in Paths
         /\ "anomalies" \in HooksOf(page) /\ fetch.anomalies.data.value \in Nat /\ fetch.anomalies.data.value <= Completed
<1>1. Types /\ page \in AllPages /\ days \in Nat /\ faults \in Nat
  BY DEF IInv, Types
<1>2. DOMAIN fetch = HooksOf(page)
  BY DEF IInv
<1>3. \A h \in HooksOf(page) : HookOf(h, fetch[h], page) /\ fetch[h] \in Hooks
  BY DEF IInv, HookOf
<1>4. "anomalies" \in HooksOf(page) /\ fetch.anomalies.data.value <= Completed
  BY <1>1, <1>3, AnomaliesEverywhere
<1>5. \A h \in HooksOf(page) : fetch[h].data.value \in Nat
  BY <1>3, HookFields
<1>6. \A h \in HooksOf(page) : fetch[h].path = PathOf(h, fetch, page, days) /\ PathOf(h, fetch, page, days) \in Paths
  BY <1>1, <1>4, <1>5, PathShape DEF IInv, Synced
<1>7. QED
  BY <1>1, <1>2, <1>3, <1>4, <1>5, <1>6

LEMMA FetchShape ==
  ASSUME IInv, NEW h \in HooksOf(page)
  PROVE  /\ h \in ListHooks => fetch[h].path = <<0>>
         /\ h = "meter" => fetch[h].path = <<page[2]>>
         /\ h = "header" => fetch[h].path = Null \/ Len(fetch[h].path) = 1
         /\ h = "detail" => fetch[h].path = Main(fetch, page[2])
         /\ h \notin Lists \cup {"header", "detail"} => fetch[h].path = Null \/ Len(fetch[h].path) = 3
<1>1. \A g \in HooksOf(page) : fetch[g].data.value \in Nat
  BY IInvHooks, HookFields
<1>2. Types /\ page \in AllPages /\ days \in Nat /\ fetch.anomalies.data.value <= Completed
  BY IInvHooks
<1>3. fetch[h].path = PathOf(h, fetch, page, days)
  BY IInvHooks
<1>4. QED
  BY <1>1, <1>2, <1>3, PathShape

LEMMA ChooseDaysStep ==
  ASSUME IInv, ChooseDays
  PROVE  IInv'
<1>1. days' \in Nat /\ page' = page /\ faults' = faults /\ fetch' = Render(fetch, page', days')
  BY PagesBounds DEF ChooseDays
<1>2. QED
  BY <1>1, RenderStep, IInvHooks DEF ChooseDays, IInv

LEMMA JumpStep ==
  ASSUME IInv, Jump
  PROVE  IInv'
<1>1. page \in AllPages /\ page[1] = "meter" /\ page' \in AllPages /\ page'[1] = "meter" /\ page' # page
      /\ page'[2] \in Meters
  BY MeterPages, IInvHooks DEF Jump
<1>2. HooksOf(page') = HooksOf(page)
  BY <1>1, PageKinds, MeterPages
<1>3. page'[2] # page[2]
  BY <1>1 DEF AllPages, Detail, Dashboard, Anomalies
<1>4. ASSUME NEW h \in HooksOf(page) PROVE HookOf(h, fetch[h], page')
  <2>1. HookOf(h, fetch[h], page)
    BY IInvHooks
  <2>2. CASE h = "meter"
    <3>1. fetch[h].path = <<page[2]>>
      BY <2>2, FetchShape
    <3>2. \A m : <<m>> = <<page[2]>> => m = page[2]
      OBVIOUS
    <3>3. UpToDate(fetch[h], page'[2])
      BY <2>1, <2>2, <3>1, <3>2, <1>3 DEF HookOf, UpToDate
    <3>4. QED
      BY <2>1, <2>2, <3>3 DEF HookOf
  <2>3. QED
    BY <2>1, <2>2 DEF HookOf
<1>5. /\ fetch' = Render(fetch, page', days') \/ fetch' = Refreshed(Render(fetch, page', days'))
      /\ days' = days /\ faults' = faults /\ UNCHANGED <<server, announced>>
  BY DEF Jump
<1>6. faults' = 0 => \A h \in HooksOf(page') : Refused(fetch[h])
  BY <1>2, <1>5 DEF IInv
<1>7. QED
  BY <1>1, <1>2, <1>4, <1>5, <1>6, IInvHooks, RenderStep

\* A hook of a page just opened.
LEMMA OffIsHook ==
  ASSUME Types, NEW h, NEW p
  PROVE  HookOf(h, Off, p) /\ Refused(Off) /\ Off.data.value = 0
<1>1. /\ Off \in Hooks /\ Off.path = Null /\ Off.pc = "off" /\ ~ Off.error /\ Off.value = 0
      /\ Off.data = NoData /\ NoData.path = Null /\ NoData.value = 0
  BY Tuples DEF Off, NoData, Hooks
<1>2. Settled(Off) /\ Refused(Off) /\ Found(Off)
  BY <1>1 DEF Settled, Refused, Found
<1>3. NotOlder(Off)
  <2>1. 0 <= Completed
    BY DEF Types, Completed
  <2>2. QED
    BY <1>1, <2>1 DEF NotOlder
<1>4. UpToDate(Off, p[2])
  BY <1>1, Tuples DEF UpToDate, Null
<1>5. QED
  BY <1>1, <1>2, <1>3, <1>4 DEF HookOf

LEMMA OpenStep ==
  ASSUME IInv, Open
  PROVE  IInv'
<1> DEFINE f == [h \in HooksOf(page') |-> Off]
<1>1. /\ page' \in AllPages /\ days' = FullSpan /\ days' \in Nat /\ faults' = faults
      /\ fetch' = Render(f, page', days') /\ UNCHANGED <<server, announced>>
  BY PagesBounds DEF Open, Mounted
<1>2. \A h \in HooksOf(page') : f[h] = Off
  OBVIOUS
<1> HIDE DEF f
<1>3. QED
  BY <1>1, <1>2, OffIsHook, RenderStep, IInvHooks

-----------------------------------------------------------------------------
(* Answers.                                                                 *)

\* The page of a meter has the hook of the meter, and no other has.
LEMMA MeterHook ==
  ASSUME IInv, "meter" \in HooksOf(page) \/ "detail" \in HooksOf(page)
  PROVE  page[2] \in Meters /\ page[2] \in Int
<1>1. page[2] \in Meters
  BY IInvHooks, PageKinds
<1>2. QED
  BY <1>1, MeterPages

\* Requests for lists get what the server has.
LEMMA HandleStep ==
  ASSUME IInv, NEW h \in HooksOf(page), Handle(h)
  PROVE  IInv'
<1> DEFINE k == fetch[h]
           read == IF h = "meter" THEN last[page[2]] ELSE Completed
           j == [k EXCEPT !.pc = "answered", !.value = read]
<1>1. Types /\ ReadingsFirst /\ k \in Hooks /\ HookOf(h, k, page)
  BY IInvHooks DEF IInv
<1>2. k.pc = "sent" /\ h \in Lists /\ UNCHANGED <<server, announced, page, days, faults>>
  BY DEF Handle
<1>3. fetch' = [fetch EXCEPT ![h] = j]
  BY DEF Handle, IInv
<1>4. read \in Nat
  BY <1>1, MeterHook DEF Types, Completed
<1>5. j \in Hooks /\ j.path = k.path /\ j.data = k.data /\ j.pc = "answered" /\ j.value = read /\ j.error = k.error
  BY <1>1, <1>4 DEF Hooks
<1>6. k.path # Null /\ ~ k.error
  BY <1>1, <1>2 DEF HookOf, Settled
<1> HIDE DEF j
<1>7. Settled(j) /\ Refused(j)
  BY <1>5, <1>6 DEF Settled, Refused
<1>8. h \in ListHooks => NotOlder(j)
  <2>1. announced <= Completed /\ Completed <= Completed /\ Completed \in Nat /\ announced \in Nat
    BY <1>1 DEF Types, Completed
  <2>2. h \in ListHooks => read = Completed /\ NotOlder(k)
    BY <1>1 DEF ListHooks, HookOf
  <2>3. QED
    BY <1>5, <2>1, <2>2 DEF NotOlder
<1>9. h = "meter" => UpToDate(j, page[2])
  <2>1. SUFFICES ASSUME h = "meter" PROVE UpToDate(j, page[2])
    OBVIOUS
  <2>2. UpToDate(k, page[2]) /\ read = last[page[2]] /\ page[2] \in Meters
    BY <1>1, <2>1, MeterHook DEF HookOf
  <2>3. read >= Start /\ Covers(page[2], read)
    BY <1>1, <2>2 DEF ReadingsFirst, Covers, Types
  <2>4. QED
    BY <1>5, <2>2, <2>3 DEF UpToDate
<1>10. h = "detail" => Found(j)
  BY <1>1, <1>5 DEF HookOf, Found
<1>11. HookOf(h, j, page)
  BY <1>5, <1>7, <1>8, <1>9, <1>10 DEF HookOf
<1>12. \A g \in HooksOf(page) : fetch'[g] = IF g = h THEN j ELSE fetch[g]
  BY <1>3 DEF IInv
<1>13. \A g \in HooksOf(page) : HookOf(g, fetch'[g], page) /\ fetch'[g].data = fetch[g].data /\ fetch'[g].path = fetch[g].path
  BY <1>5, <1>11, <1>12, IInvHooks
<1>14. \A g \in HooksOf(page') : HookOf(g, fetch[g], page)'
  BY <1>2, <1>13, HooksAfter DEF server
<1>15. Synced'
  <2>1. \A g \in HooksOf(page) : PathOf(g, fetch', page, days) = PathOf(g, fetch, page, days)
    BY <1>13, PathOfData, IInvHooks
  <2>2. \A g \in HooksOf(page') : PathOf(g, fetch', page, days) = PathOf(g, fetch, page, days)'
    BY <1>2 DEF server, PathOf, AnomaliesPath, DetailPath, Main, LastReadingAt, ChangeAt
  <2>3. QED
    BY <1>2, <1>13, <2>1, <2>2 DEF IInv, Synced
<1>16. faults' = 0 => \A g \in HooksOf(page') : Refused(fetch'[g])
  BY <1>2, <1>7, <1>12 DEF IInv
<1>17. Types' /\ ReadingsFirst'
  BY <1>1, <1>2, SameServer DEF Types, server
<1>18. fetch' = [g \in HooksOf(page') |-> fetch'[g]]
  BY <1>2, <1>3 DEF IInv
<1>19. QED
  BY <1>14, <1>15, <1>16, <1>17, <1>18 DEF IInv

LEMMA ListPath ==
  ASSUME IInv, NEW h \in HooksOf(page) \cap Lists
  PROVE  Len(fetch[h].path) = 1 /\ fetch[h].path # Null
<1>1. CASE h = "meter"
  <2>1. "meter" \in HooksOf(page) /\ page[2] \in Int
    BY <1>1, MeterHook
  <2>2. fetch[h].path = <<page[2]>>
    BY <1>1, <2>1, FetchShape
  <2>3. QED
    BY <2>2, Tuples
<1>2. CASE h \in ListHooks
  BY <1>2, FetchShape, Tuples
<1>3. QED
  BY <1>1, <1>2 DEF ListHooks

Answered(k, d) == [k EXCEPT !.pc = "off", !.data = d, !.value = 0]

LEMMA AnsweredHook ==
  ASSUME NEW k \in Hooks, NEW d \in [path : Paths, value : Nat]
  PROVE  /\ Answered(k, d) \in Hooks /\ Answered(k, d).path = k.path /\ Answered(k, d).pc = "off"
         /\ Answered(k, d).error = k.error /\ Answered(k, d).data = d /\ Answered(k, d).value = 0
BY DEF Hooks, Answered

\* The answer is of the path, and what it says was true at its handling.
LEMMA AnswerKeepsHook ==
  ASSUME IInv, NEW h \in HooksOf(page), Answerable(h), NEW j,
         j = Answered(fetch[h], Data(fetch[h]))
  PROVE  HookOf(h, j, page) /\ Refused(j)
<1> DEFINE k == fetch[h]
<1>1. Types /\ k \in Hooks /\ HookOf(h, k, page) /\ Settled(k)
  BY IInvHooks DEF HookOf
<1>2. k.pc \in {"sent", "answered"} /\ k.path # Null /\ ~ k.error
  BY <1>1 DEF Answerable, Settled
<1>3. Len(k.path) = 2 => h = "detail"
  <2>1. Len(Null) # 2
    BY Tuples
  <2>2. h \in Lists => Len(k.path) = 1
    BY ListPath
  <2>3. QED
    BY <2>1, <2>2, FetchShape
<1>4. CASE h = "detail"
  <2>1. page[2] \in Meters /\ page[2] \in Int
    BY <1>4, MeterHook
  <2>2. PICK a \in 1..Completed : k.path = <<a, page[2]>> /\ found[a][page[2]] # None
    <3>1. k.path = Main(fetch, page[2])
      BY <1>4, FetchShape
    <3>2. QED
      BY <1>2, <2>1, <3>1, IInvHooks, MainIs
  <2>3. Len(k.path) = 2 /\ k.path[1] = a /\ k.path[2] = page[2]
    BY <2>1, <2>2, Tuples
  <2>4. Data(k) = [path |-> k.path, value |-> found[a][page[2]]]
    BY <2>3 DEF Data
  <2>5. found[a][page[2]] \in Nat
    BY <1>1, <2>1 DEF Types, Completed
  <2>6. j \in Hooks /\ j.path = k.path /\ j.pc = "off" /\ ~ j.error /\ j.data = Data(k)
    <3>1. Data(k) \in [path : Paths, value : Nat]
      BY <1>1, <2>4, <2>5, HookFields
    <3>2. QED
      BY <1>1, <1>2, <3>1, AnsweredHook
  <2>7. Settled(j) /\ Refused(j) /\ Found(j)
    BY <2>1, <2>2, <2>4, <2>6 DEF Settled, Refused, Found
  <2>8. QED
    BY <1>4, <2>6, <2>7 DEF HookOf, ListHooks, Lists
<1>5. CASE h # "detail"
  <2>1. Data(k) = [path |-> k.path, value |-> k.value]
    BY <1>3, <1>5 DEF Data
  <2>2. j \in Hooks /\ j.path = k.path /\ j.pc = "off" /\ ~ j.error /\ j.value = 0
        /\ j.data.path = k.path /\ j.data.value = k.value
    <3>1. Data(k) \in [path : Paths, value : Nat]
      BY <1>1, <2>1, HookFields
    <3>2. Data(k).path = k.path /\ Data(k).value = k.value
      BY <2>1
    <3>3. QED
      BY <1>1, <1>2, <3>1, <3>2, AnsweredHook
  <2>3. Settled(j) /\ Refused(j)
    BY <2>2 DEF Settled, Refused
  <2>4. h \in Lists => k.pc = "answered"
    <3>1. h \in Lists => Len(k.path) = 1
      BY ListPath
    <3>2. QED
      BY <3>1 DEF Answerable, Lists
  <2>5. h \in ListHooks => NotOlder(j)
    <3>1. h \in ListHooks => NotOlder(k) /\ k.pc = "answered"
      BY <1>1, <2>4 DEF HookOf, ListHooks
    <3>2. 0 <= Completed /\ announced \in Nat
      BY <1>1 DEF Types, Completed
    <3>3. QED
      BY <1>2, <2>2, <3>1, <3>2 DEF NotOlder
  <2>6. h = "meter" => UpToDate(j, page[2])
    <3>1. h = "meter" => UpToDate(k, page[2]) /\ k.pc = "answered"
      BY <1>1, <2>4 DEF HookOf, Lists
    <3>2. QED
      BY <1>2, <2>2, <3>1 DEF UpToDate
  <2>7. QED
    BY <1>5, <2>2, <2>3, <2>5, <2>6 DEF HookOf
<1>6. QED
  BY <1>4, <1>5

LEMMA DeliverStep ==
  ASSUME IInv, NEW h \in HooksOf(page), Deliver(h)
  PROVE  IInv'
<1> DEFINE j == Answered(fetch[h], Data(fetch[h]))
           f == [fetch EXCEPT ![h] = j]
<1>1. /\ UNCHANGED <<server, announced, page, days, faults>> /\ Answerable(h)
      /\ fetch' = Render(f, page, days)
  BY DEF Deliver, IInv, Answered
<1>2. HookOf(h, j, page) /\ Refused(j)
  BY <1>1, AnswerKeepsHook
<1> HIDE DEF j
<1>3. \A g \in HooksOf(page) : f[g] = IF g = h THEN j ELSE fetch[g]
  BY IInvHooks DEF IInv
<1> HIDE DEF f
<1>4. \A g \in HooksOf(page) : HookOf(g, f[g], page)
  BY <1>2, <1>3, IInvHooks
<1>5. faults' = 0 => \A g \in HooksOf(page) : Refused(f[g])
  BY <1>1, <1>2, <1>3 DEF IInv
<1>6. QED
  BY <1>1, <1>4, <1>5, IInvHooks, RenderStep

LEMMA DeliverErrorStep ==
  ASSUME IInv, NEW h \in HooksOf(page), DeliverError(h)
  PROVE  IInv'
<1> DEFINE k == fetch[h]
           j == [k EXCEPT !.pc = "off", !.error = TRUE]
           f == [fetch EXCEPT ![h] = j]
<1>1. /\ UNCHANGED <<server, announced, page, days>> /\ k.pc = "sent"
      /\ fetch' = Render(f, page, days)
  BY DEF DeliverError, IInv
<1>2. \/ faults' = faults /\ Len(k.path) = 3 /\ ~ RangeAccepted(k.path)
     \/ faults' = faults + 1
  BY DEF DeliverError
<1>3. k \in Hooks /\ HookOf(h, k, page) /\ faults \in Nat
  BY IInvHooks
<1>4. j \in Hooks /\ j.path = k.path /\ j.data = k.data /\ j.value = k.value /\ j.pc = "off" /\ j.error
  BY <1>3 DEF Hooks
<1> HIDE DEF j
<1>5. Settled(j) /\ (NotOlder(k) => NotOlder(j)) /\ (UpToDate(k, page[2]) => UpToDate(j, page[2])) /\ (Found(k) => Found(j))
  BY <1>4 DEF Settled, NotOlder, UpToDate, Found
<1>6. HookOf(h, j, page)
  BY <1>3, <1>4, <1>5 DEF HookOf
<1>7. \A g \in HooksOf(page) : f[g] = IF g = h THEN j ELSE fetch[g]
  BY IInvHooks DEF IInv
<1> HIDE DEF f
<1>8. \A g \in HooksOf(page) : HookOf(g, f[g], page)
  BY <1>6, <1>7, IInvHooks
<1>9. faults' = 0 => \A g \in HooksOf(page) : Refused(f[g])
  <2>1. faults' = 0 => faults = 0 /\ Refused(j)
    BY <1>2, <1>3, <1>4 DEF Refused
  <2>2. QED
    BY <1>7, <2>1 DEF IInv
<1>10. faults' \in Nat
  BY <1>2, <1>3
<1>11. QED
  BY <1>1, <1>8, <1>9, <1>10, IInvHooks, RenderStep

-----------------------------------------------------------------------------
(* Steps that ask again.                                                    *)

\* Hooks that are left alone or asked again for their path keep everything.
LEMMA AgainStep ==
  ASSUME IInv, UNCHANGED <<server, page, days, faults>>, announced' \in {0} \cup mine,
         fetch' = [h \in HooksOf(page) |-> fetch'[h]],
         \A h \in HooksOf(page) : Kept(fetch[h], fetch'[h]) \/ Sent(fetch[h], fetch'[h], fetch[h].path),
         announced' # announced => \A h \in HooksOf(page) \cap Lists : Sent(fetch[h], fetch'[h], fetch[h].path)
  PROVE  IInv'
<1>1. Types' /\ ReadingsFirst'
  BY DEF IInv, Types, server, ReadingsFirst, Completed
<1>2. \A h \in HooksOf(page) : /\ HookOf(h, fetch'[h], page) /\ (Refused(fetch[h]) => Refused(fetch'[h]))
                               /\ fetch'[h].data = fetch[h].data /\ fetch'[h].path = fetch[h].path
                               /\ Sent(fetch[h], fetch'[h], fetch[h].path) =>
                                     fetch'[h].pc = "sent" /\ ~ fetch'[h].error /\ fetch'[h].value = fetch[h].value
  <2> SUFFICES ASSUME NEW h \in HooksOf(page)
               PROVE  /\ HookOf(h, fetch'[h], page) /\ (Refused(fetch[h]) => Refused(fetch'[h]))
                      /\ fetch'[h].data = fetch[h].data /\ fetch'[h].path = fetch[h].path
                      /\ Sent(fetch[h], fetch'[h], fetch[h].path) =>
                            fetch'[h].pc = "sent" /\ ~ fetch'[h].error /\ fetch'[h].value = fetch[h].value
    OBVIOUS
  <2>1. fetch[h] \in Hooks /\ HookOf(h, fetch[h], page) /\ fetch[h].path \in Paths
    BY IInvHooks, HookFields
  <2>2. Kept(fetch[h], fetch'[h]) \/ Sent(fetch[h], fetch'[h], fetch[h].path)
    OBVIOUS
  <2>3. HookOf(h, fetch'[h], page) /\ (Refused(fetch[h]) => Refused(fetch'[h]))
    BY <2>1, <2>2, MovesKeepHook
  <2>4. /\ fetch'[h].data = fetch[h].data /\ fetch'[h].value = fetch[h].value
        /\ Sent(fetch[h], fetch'[h], fetch[h].path) => fetch'[h].path = fetch[h].path /\ fetch'[h].pc = "sent" /\ ~ fetch'[h].error
    BY <2>1, <2>2, HookMoves
  <2>5. QED
    BY <2>2, <2>3, <2>4 DEF Kept
<1>3. ASSUME NEW h \in HooksOf(page) PROVE HookOf(h, fetch[h], page)'
  <2>1. CASE announced' = announced
    BY <1>2, <2>1, HooksAfter DEF server
  <2>2. CASE announced' # announced /\ h \in Lists
    <3>1. fetch'[h].pc = "sent" /\ fetch'[h].path # Null /\ HookOf(h, fetch'[h], page)
      BY <1>2, <2>2 DEF Sent
    <3>2. QED
      BY <2>2, <3>1 DEF HookOf, NotOlder, UpToDate, Settled, Lists, server, Completed
  <2>3. CASE h \notin Lists
    BY <1>2, <2>3 DEF HookOf, ListHooks, Lists, Found, Settled, server, Completed
  <2>4. QED
    BY <2>1, <2>2, <2>3
<1>4. Synced'
  <2>1. \A g \in HooksOf(page) : PathOf(g, fetch', page, days) = PathOf(g, fetch, page, days)
    BY <1>2, PathOfData, IInvHooks
  <2>2. \A g \in HooksOf(page') : PathOf(g, fetch', page, days) = PathOf(g, fetch, page, days)'
    BY DEF server, PathOf, AnomaliesPath, DetailPath, Main, LastReadingAt, ChangeAt
  <2>3. QED
    BY <1>2, <2>1, <2>2 DEF IInv, Synced
<1>5. faults' = 0 => \A h \in HooksOf(page') : Refused(fetch'[h])
  BY <1>2 DEF IInv
<1>6. QED
  BY <1>1, <1>3, <1>4, <1>5 DEF IInv

LEMMA RetryStep ==
  ASSUME IInv, NEW h \in HooksOf(page), Retry(h)
  PROVE  IInv'
<1>1. \A g \in HooksOf(page) : fetch'[g] = IF g = h THEN Execute(fetch[g]) ELSE fetch[g]
  BY DEF Retry, IInv
<1>2. \A g \in HooksOf(page) : Kept(fetch[g], fetch'[g]) \/ Sent(fetch[g], fetch'[g], fetch[g].path)
  BY <1>1, ExecuteMoves, IInvHooks DEF Kept
<1>3. fetch' = [g \in HooksOf(page) |-> fetch'[g]] /\ UNCHANGED <<server, announced, page, days, faults>>
  BY DEF Retry, IInv
<1>4. announced \in {0} \cup mine
  BY DEF IInv, Types
<1>5. QED
  BY <1>2, <1>3, <1>4, AgainStep

LEMMA AnnounceStep ==
  ASSUME IInv, Announce
  PROVE  IInv'
<1>1. DOMAIN fetch = HooksOf(page)
  BY IInvHooks
<1>2. \A g \in HooksOf(page) : fetch'[g] = IF g \in Lists THEN Execute(fetch[g]) ELSE fetch[g]
  BY <1>1 DEF Announce, Refreshed
<1>3. \A g \in HooksOf(page) : Kept(fetch[g], fetch'[g]) \/ Sent(fetch[g], fetch'[g], fetch[g].path)
  BY <1>2, ExecuteMoves, IInvHooks DEF Kept
<1>4. fetch' = [g \in HooksOf(page) |-> fetch'[g]] /\ UNCHANGED <<server, page, days, faults>> /\ announced' \in {0} \cup mine
  BY <1>1 DEF Announce, Refreshed
<1>5. ASSUME NEW g \in HooksOf(page) \cap Lists PROVE Sent(fetch[g], fetch'[g], fetch[g].path)
  <2>1. fetch[g].path # Null
    BY <1>5, ListPath
  <2>2. QED
    BY <1>2, <2>1, ExecuteMoves, IInvHooks
<1>6. QED
  BY <1>3, <1>4, <1>5, AgainStep

-----------------------------------------------------------------------------
(* The server.                                                              *)

LEMMA ImportStep ==
  ASSUME IInv, Import
  PROVE  IInv'
<1>1. UNCHANGED <<found, mine, announced, page, days, fetch, faults>>
  BY DEF Import
<1>2. PICK m \in Meters : last' = [last EXCEPT ![m] = @ + Step]
  BY DEF Import
<1>3. Step \in Nat /\ Start \in Nat
  BY PagesBounds
<1>4. last' \in [Meters -> Nat] /\ \A n \in Meters : last'[n] >= last[n] /\ last[n] \in Nat
  BY <1>2, <1>3 DEF IInv, Types
<1>5. Types'
  BY <1>1, <1>4 DEF IInv, Types, Completed
<1>6. ReadingsFirst'
  <2>1. \A n \in Meters : last[n] >= Start /\ \A a \in 1..Completed : found[a][n] <= last[n] /\ found[a][n] \in Nat
    BY DEF IInv, Types, ReadingsFirst, Completed
  <2>2. \A n \in Meters : last'[n] \in Nat
    BY <1>4
  <2>3. QED
    BY <1>1, <1>3, <1>4, <2>1, <2>2 DEF ReadingsFirst, Completed
<1>7. \A h \in HooksOf(page') : HookOf(h, fetch[h], page)'
  BY <1>1, SameHooks, IInvHooks
<1>8. Synced'
  BY <1>1 DEF IInv, Synced, PathOf, AnomaliesPath, DetailPath, Main, LastReadingAt, ChangeAt
<1>9. QED
  BY <1>1, <1>5, <1>6, <1>7, <1>8 DEF IInv, Refused

\* An analysis that completes changes nothing that earlier ones found.
LEMMA CompleteStep ==
  ASSUME IInv, CompleteAnalysis
  PROVE  IInv'
<1>1. UNCHANGED <<last, announced, page, days, fetch, faults>>
  BY DEF CompleteAnalysis
<1>2. PICK start \in Findings : (\A m \in Meters : start[m] <= last[m]) /\ found' = Append(found, start)
  BY DEF CompleteAnalysis
<1>3. found \in Seq([Meters -> Nat]) /\ start \in [Meters -> Nat]
  BY PagesBounds DEF IInv, Types
<1>4. /\ found' \in Seq([Meters -> Nat]) /\ Completed' = Completed + 1 /\ Completed \in Nat
      /\ \A a \in 1..Completed : found'[a] = found[a]
      /\ found'[Completed + 1] = start
  BY <1>2, <1>3 DEF Completed
<1>5. Types'
  <2>1. mine' \subseteq 1..Completed' /\ mine \subseteq mine'
    BY <1>4 DEF CompleteAnalysis, IInv, Types
  <2>2. QED
    BY <1>1, <1>4, <2>1 DEF IInv, Types
<1>6. ReadingsFirst'
  <2>1. ASSUME NEW m \in Meters, NEW a \in 1..Completed' PROVE found'[a][m] <= last[m]
    <3>1. CASE a \in 1..Completed
      BY <1>4, <3>1 DEF IInv, ReadingsFirst
    <3>2. CASE a = Completed + 1
      BY <1>2, <1>4, <3>2
    <3>3. QED
      BY <1>4, <3>1, <3>2
  <2>2. QED
    BY <1>1, <2>1 DEF IInv, ReadingsFirst
<1>7. announced \in 0..Completed /\ announced \in Nat
  BY <1>4 DEF IInv, Types
<1>8. ASSUME NEW h \in HooksOf(page) PROVE HookOf(h, fetch[h], page)'
  <2> DEFINE k == fetch[h]
  <2>1. HookOf(h, k, page) /\ k \in Hooks
    BY IInvHooks
  <2>2. NotOlder(k) => NotOlder(k)'
    <3>1. k.value \in Nat /\ k.data.value \in Nat
      BY <2>1, HookFields
    <3>2. QED
      BY <1>1, <1>4, <3>1 DEF NotOlder
  <2>3. UpToDate(k, page[2]) => UpToDate(k, page[2])'
    BY <1>1, <1>4, <1>7 DEF UpToDate, Covers
  <2>4. Found(k) => Found(k)'
    <3>1. SUFFICES ASSUME Found(k), k.data.path # Null PROVE Found(k)'
      BY <1>1 DEF Found
    <3>2. PICK a \in 1..Completed, m \in Meters : k.data.path = <<a, m>> /\ k.data.value = found[a][m] /\ found[a][m] # None
      BY <3>1 DEF Found
    <3>3. a \in 1..Completed' /\ found'[a][m] = found[a][m]
      BY <1>4
    <3>4. QED
      BY <1>1, <3>2, <3>3 DEF Found
  <2>5. QED
    BY <1>1, <2>1, <2>2, <2>3, <2>4 DEF HookOf, Settled
<1>9. Synced'
  <2> DEFINE v == fetch.anomalies.data.value
  <2>1. v = 0 \/ found'[v] = found[v]
    BY <1>4, IInvHooks
  <2>2. \A m : Main(fetch, m)' = Main(fetch, m)
    BY <1>1, <2>1 DEF Main
  <2>3. \A h \in HooksOf(page) : PathOf(h, fetch, page, days)' = PathOf(h, fetch, page, days)
    BY <1>1, <2>2 DEF PathOf, AnomaliesPath, DetailPath, LastReadingAt, ChangeAt
  <2>4. QED
    BY <1>1, <2>3 DEF IInv, Synced
<1>10. QED
  BY <1>1, <1>5, <1>6, <1>8, <1>9 DEF IInv, Refused

-----------------------------------------------------------------------------
(* The invariant.                                                           *)

LEMMA SentAtFirst ==
  ASSUME NEW k \in Hooks, k.error = FALSE, NEW path \in Paths, path # Null
  PROVE  Sent(k, [k EXCEPT !.path = path, !.pc = "sent"], path)
<1>1. [k EXCEPT !.path = path, !.pc = "sent"] = [k EXCEPT !.path = path, !.pc = "sent", !.error = FALSE]
  BY DEF Hooks
<1>2. QED
  BY <1>1 DEF Sent

LEMMA InitIInv == Init => IInv
<1> SUFFICES ASSUME Init PROVE IInv
  OBVIOUS
<1>1. /\ page \in AllPages /\ found = <<>> /\ Completed = 0 /\ announced = 0 /\ mine = {}
      /\ days = FullSpan /\ faults = 0 /\ last = [m \in Meters |-> Start]
  <2>1. page \in Entries
    BY DEF Init
  <2>2. QED
    BY <2>1, EntriesArePages DEF Init, Completed
<1>2. Types
  <2>1. FullSpan \in Nat /\ Start \in Nat
    BY PagesBounds
  <2>2. <<>> \in Seq([Meters -> Nat])
    OBVIOUS
  <2>3. QED
    BY <1>1, <2>1, <2>2 DEF Types
<1>3. ReadingsFirst
  <2>1. \A m \in Meters : last[m] = Start /\ Start \in Nat
    BY <1>1, PagesBounds
  <2>2. 1..Completed = {}
    BY <1>1
  <2>3. QED
    BY <2>1, <2>2 DEF ReadingsFirst
<1> DEFINE path(h) == IF h = "meter" THEN <<page[2]>> ELSE <<0>>
<1>4. \A h \in HooksOf(page) : /\ h \in Lists => fetch[h] = [Off EXCEPT !.path = path(h), !.pc = "sent"]
                               /\ h \notin Lists => fetch[h] = Off
  BY DEF Init
<1>5. \A h : Off \in Hooks /\ HookOf(h, Off, page) /\ Refused(Off) /\ Off.data.value = 0
  BY <1>2, OffIsHook DEF HookOf
<1>6. ASSUME NEW h \in HooksOf(page) PROVE HookOf(h, fetch[h], page) /\ Refused(fetch[h]) /\ fetch[h].data = Off.data
  <2>1. CASE h \in Lists
    <3>1. path(h) \in Paths /\ path(h) # Null
      <4>1. h = "meter" => page[2] \in Int
        BY <1>1, PageKinds, MeterPages
      <4>2. QED
        BY <4>1, Tuples
    <3>2. Sent(Off, fetch[h], path(h))
      <4>1. Off \in Hooks /\ Off.error = FALSE
        BY <1>5 DEF Off
      <4> HIDE DEF path
      <4>2. QED
        BY <1>4, <2>1, <3>1, <4>1, SentAtFirst
    <3>3. QED
      BY <1>5, <3>1, <3>2, MovesKeepHook, HookMoves
  <2>2. CASE h \notin Lists
    BY <1>4, <1>5, <2>2
  <2>3. QED
    BY <2>1, <2>2
<1>7. Synced
  <2>1. ASSUME NEW h \in HooksOf(page) PROVE fetch[h].path = PathOf(h, fetch, page, days)
    <3>1. CASE h \in Lists
      <4>1. fetch[h].path = path(h)
        BY <1>4, <3>1 DEF Off
      <4>2. PathOf(h, fetch, page, days) = path(h)
        <5>1. \A g \in HooksOf(page) : fetch[g].data.value \in Nat
          BY <1>5, <1>6
        <5>2. fetch.anomalies.data.value <= Completed
          BY <1>1, <1>6, AnomaliesEverywhere
        <5>3. QED
          BY <1>1, <1>2, <3>1, <5>1, <5>2, PathShape DEF Types, ListHooks
      <4>3. QED
        BY <4>1, <4>2
    <3>2. CASE h \notin Lists
      <4>1. fetch[h].path = Null
        <5>1. fetch[h] = Off /\ Off.path = Null
          BY <1>4, <3>2 DEF Off
        <5>2. QED
          BY <5>1
      <4>2. \A g \in HooksOf(page) : fetch[g].data.value = 0
        BY <1>5, <1>6
      <4>3. PathOf(h, fetch, page, days) = Null
        <5>1. CASE page = Dashboard
          BY <1>1, <3>2, <5>1, PageKinds, MeterPages DEF Lists
        <5>2. CASE page = Anomalies
          BY <1>1, <3>2, <4>2, <5>2, PageKinds, MeterPages DEF Lists, PathOf, AnomaliesPath
        <5>3. CASE page # Dashboard /\ page # Anomalies
          <6>1. fetch.meter.data.value = 0 /\ fetch.anomalies.data.value = 0
            BY <1>1, <4>2, <5>3, PageKinds
          <6>2. QED
            BY <3>2, <5>3, <6>1 DEF Lists, PathOf, DetailPath, Main, LastReadingAt
        <5>4. QED
          BY <5>1, <5>2, <5>3
      <4>4. QED
        BY <4>1, <4>3
    <3>3. QED
      BY <3>1, <3>2
  <2>2. QED
    BY <2>1 DEF Synced
<1>8. fetch = [h \in HooksOf(page) |-> fetch[h]]
  BY DEF Init
<1>9. QED
  BY <1>2, <1>3, <1>6, <1>7, <1>8 DEF IInv

LEMMA StepIInv == IInv /\ [Next]_vars => IInv'
<1> SUFFICES ASSUME IInv, [Next]_vars PROVE IInv'
  OBVIOUS
<1>1. CASE UNCHANGED vars
  <2>1. UNCHANGED <<server, announced, page, days, fetch, faults>>
    BY <1>1 DEF vars
  <2>2. announced \in {0} \cup mine /\ fetch = [h \in HooksOf(page) |-> fetch[h]]
    BY DEF IInv, Types
  <2>3. QED
    BY <2>1, <2>2, AgainStep DEF Kept
<1>2. CASE Import
  BY <1>2, ImportStep
<1>3. CASE CompleteAnalysis
  BY <1>3, CompleteStep
<1>4. CASE Announce
  BY <1>4, AnnounceStep
<1>5. CASE ChooseDays \/ Jump \/ Open
  BY <1>5, ChooseDaysStep, JumpStep, OpenStep
<1>6. CASE Answers
  BY <1>6, HandleStep, DeliverStep, DeliverErrorStep, IInvHooks DEF Answers
<1>7. CASE \E h \in DOMAIN fetch : Retry(h)
  BY <1>7, RetryStep, IInvHooks
<1>8. QED
  BY <1>1, <1>2, <1>3, <1>4, <1>5, <1>6, <1>7 DEF Next

-----------------------------------------------------------------------------
(* What the invariant says of a page at rest.                               *)

\* Every hook that has a path and no error has the data of the path.
LEMMA AtRest ==
  ASSUME IInv, Rest, NEW h \in HooksOf(page), ~ fetch[h].error, fetch[h].path # Null
  PROVE  fetch[h].data.path = fetch[h].path
<1>1. fetch[h].pc = "off" /\ Settled(fetch[h])
  BY IInvHooks DEF Rest, HookOf
<1>2. QED
  BY <1>1 DEF Settled

\* The detail of a meter whose last reading and list loaded.
LEMMA DetailAtRest ==
  ASSUME IInv, Rest, page[1] = "meter", ~ fetch.meter.error
  PROVE  /\ page[2] \in Meters /\ page[2] \in Int
         /\ HooksOf(page) = {"meter", "anomalies", "detail", "readings", "events", "before", "after"}
         /\ fetch.meter.data.path = <<page[2]>>
         /\ LastReadingAt(fetch) >= Start /\ LastReadingAt(fetch) # 0 /\ LastReadingAt(fetch) \in Nat
         /\ Covers(page[2], LastReadingAt(fetch))
         /\ ChangeAt(fetch) \in Nat
         /\ \A h \in RangeHooks : fetch[h].path = RangePath(h, page[2], LastReadingAt(fetch), ChangeAt(fetch), days)
<1>1. HooksOf(page) = {"meter", "anomalies", "detail", "readings", "events", "before", "after"} /\ page # Dashboard /\ page # Anomalies
  BY IInvHooks, PageKinds, MeterPages
<1>2. page[2] \in Meters /\ page[2] \in Int
  BY <1>1, MeterHook
<1>3. fetch.meter.path = <<page[2]>> /\ fetch.meter.path # Null
  BY <1>1, <1>2, FetchShape, Tuples
<1>4. fetch.meter.data.path = <<page[2]>>
  BY <1>1, <1>3, AtRest
<1>5. UpToDate(fetch.meter, page[2]) /\ fetch.meter.pc = "off" /\ fetch.meter \in Hooks /\ fetch.detail \in Hooks
  BY <1>1, IInvHooks DEF HookOf, Rest
<1>6. fetch.meter.data.value \in Nat /\ fetch.detail.data.value \in Nat
  BY <1>5, HookFields
<1>7. LastReadingAt(fetch) >= Start /\ Covers(page[2], LastReadingAt(fetch)) /\ LastReadingAt(fetch) \in Nat /\ ChangeAt(fetch) \in Nat
  BY <1>3, <1>4, <1>5, <1>6 DEF UpToDate, LastReadingAt, ChangeAt
<1>8. LastReadingAt(fetch) # 0
  BY <1>7, PagesBounds
<1>9. ASSUME NEW h \in RangeHooks
      PROVE  fetch[h].path = RangePath(h, page[2], LastReadingAt(fetch), ChangeAt(fetch), days)
  <2>1. fetch[h].path = PathOf(h, fetch, page, days)
    BY <1>1, IInvHooks DEF RangeHooks
  <2>2. PathOf(h, fetch, page, days) = DetailPath(h, fetch, page[2], days)
    BY <1>1 DEF PathOf
  <2>3. DetailPath(h, fetch, page[2], days) = RangePath(h, page[2], LastReadingAt(fetch), ChangeAt(fetch), days)
    BY <1>8 DEF DetailPath, RangeHooks
  <2>4. QED
    BY <2>1, <2>2, <2>3
<1>10. QED
  BY <1>1, <1>2, <1>4, <1>7, <1>8, <1>9

\* The anomaly on screen is the main one of the list, and has a change.
LEMMA MainAtRest ==
  ASSUME IInv, Rest, page[1] = "meter", ~ fetch.detail.error, Main(fetch, page[2]) # Null
  PROVE  /\ fetch.detail.data.path = Main(fetch, page[2])
         /\ ChangeAt(fetch) # None
         /\ fetch.anomalies.data.value \in 1..Completed
         /\ ChangeAt(fetch) = found[fetch.anomalies.data.value][page[2]]
<1>1. "detail" \in HooksOf(page) /\ page[2] \in Meters /\ page[2] \in Int
  BY IInvHooks, PageKinds, MeterPages, MeterHook
<1>2. fetch.detail.data.path = Main(fetch, page[2])
  BY <1>1, FetchShape, AtRest
<1>3. /\ Main(fetch, page[2]) = <<fetch.anomalies.data.value, page[2]>>
      /\ fetch.anomalies.data.value \in 1..Completed
  BY <1>1, IInvHooks, MainIs
<1>4. Found(fetch.detail)
  BY <1>1, IInvHooks DEF HookOf
<1>5. PICK a \in 1..Completed, m \in Meters :
         fetch.detail.data.path = <<a, m>> /\ fetch.detail.data.value = found[a][m] /\ found[a][m] # None
  BY <1>2, <1>4 DEF Found
<1>6. a = fetch.anomalies.data.value /\ m = page[2]
  BY <1>2, <1>3, <1>5
<1>7. QED
  BY <1>2, <1>3, <1>5, <1>6 DEF ChangeAt

LEMMA StoryOfDetail ==
  ASSUME IInv, Rest, Clean, page[1] = "meter"
  PROVE  DetailStory(page[2])
<1> DEFINE m == page[2]
           at == LastReadingAt(fetch)
           change == ChangeAt(fetch)
<1>1. \A h \in HooksOf(page) : ~ fetch[h].error
  BY IInvHooks DEF Clean
<1>2. HooksOf(page) = {"meter", "anomalies", "detail", "readings", "events", "before", "after"}
  BY IInvHooks, PageKinds, MeterPages
<1>3. /\ m \in Int /\ fetch.meter.data.path = <<m>> /\ at \in Nat /\ change \in Nat
      /\ \A h \in RangeHooks : fetch[h].path = RangePath(h, m, at, change, days)
  BY <1>1, <1>2, DetailAtRest
<1>4. at + 1 \in Int /\ at + 1 - days \in Int /\ at + 1 - FullSpan \in Int /\ change \in Int
  BY <1>3, PagesBounds, IInvHooks
<1>5. fetch.readings.path = <<m, at + 1 - days, at + 1>> /\ fetch.events.path = <<m, at + 1 - FullSpan, at + 1>>
  BY <1>3, RangePaths DEF RangeHooks
<1>6. fetch.readings.data.path = <<m, at + 1 - days, at + 1>> /\ fetch.events.data.path = <<m, at + 1 - FullSpan, at + 1>>
  <2>1. fetch.readings.path # Null /\ fetch.events.path # Null
    BY <1>3, <1>4, <1>5, Tuples
  <2>2. QED
    BY <1>1, <1>2, <1>5, <2>1, AtRest
<1>7. ASSUME Main(fetch, m) # Null
      PROVE  /\ fetch.detail.data.path = Main(fetch, m)
             /\ fetch.before.data.path = <<m, at + 1 - FullSpan, change>>
             /\ fetch.after.data.path = <<m, change, at + 1>>
  <2>1. fetch.detail.data.path = Main(fetch, m) /\ change # None
    BY <1>1, <1>2, <1>7, MainAtRest
  <2>2. fetch.before.path = <<m, at + 1 - FullSpan, change>> /\ fetch.after.path = <<m, change, at + 1>>
    BY <1>3, <2>1, RangePaths DEF RangeHooks
  <2>3. fetch.before.path # Null /\ fetch.after.path # Null
    BY <1>3, <1>4, <2>2, Tuples
  <2>4. QED
    BY <1>1, <1>2, <2>1, <2>2, <2>3, AtRest
<1>8. QED
  BY <1>3, <1>6, <1>7 DEF DetailStory

-----------------------------------------------------------------------------
(* The theorems.                                                            *)

\* Pages keep every hook on the path a render would give it, and a hook at
\* rest without an error has the data of its path.
THEOREM PagesInvariant == Spec => []IInv
<1>1. SafePages => []IInv
  BY InitIInv, StepIInv, PTL DEF SafePages
<1>2. QED
  BY <1>1, SpecIsSafe, PTL

\* A page at rest without errors tells one story, in whatever order the
\* answers of its hooks arrived.
THEOREM OneStoryHolds == Spec => []OneStory
<1>1. IInv => OneStory
  <2> SUFFICES ASSUME IInv, Rest, Clean
               PROVE  /\ page[1] = "meter" => DetailStory(page[2])
                      /\ page = Anomalies /\ fetch.anomalies.data.value # 0 =>
                           fetch.header.data.path = <<fetch.anomalies.data.value>>
    BY DEF OneStory
  <2>1. page[1] = "meter" => DetailStory(page[2])
    BY StoryOfDetail
  <2>2. ASSUME page = Anomalies, fetch.anomalies.data.value # 0
        PROVE  fetch.header.data.path = <<fetch.anomalies.data.value>>
    <3>1. "header" \in HooksOf(page) /\ ~ fetch.header.error
      BY <2>2, IInvHooks, PageKinds, MeterPages DEF Clean
    <3>2. fetch.header.path = <<fetch.anomalies.data.value>>
      BY <2>2, <3>1, IInvHooks, MeterPages DEF PathOf, AnomaliesPath
    <3>3. fetch.header.path # Null
      BY <3>2, IInvHooks, Tuples
    <3>4. QED
      BY <3>1, <3>2, <3>3, AtRest
  <2>3. QED
    BY <2>1, <2>2
<1>2. QED
  BY <1>1, PagesInvariant, PTL

\* No list or card that loaded is older than the analysis last announced.
THEOREM NewsIsShownHolds == Spec => []NewsIsShown
<1>1. IInv => NewsIsShown
  <2> SUFFICES ASSUME IInv, Rest, NEW h \in (DOMAIN fetch \cap Lists) \ {"meter"}, ~ fetch[h].error
               PROVE  fetch[h].data.value >= announced
    BY DEF NewsIsShown
  <2>1. h \in HooksOf(page) /\ h \in ListHooks /\ fetch[h].pc = "off"
    BY IInvHooks DEF ListHooks, Rest
  <2>2. NotOlder(fetch[h]) /\ fetch[h].path # Null
    BY <2>1, IInvHooks, ListPath DEF HookOf, ListHooks
  <2>3. QED
    BY <2>1, <2>2 DEF NotOlder
<1>2. QED
  BY <1>1, PagesInvariant, PTL

\* When no request failed on its own, a page at rest lacks a profile only
\* because of how old the change is, of another operator's analysis or of an
\* anomaly of before.
THEOREM ProfilesAnsweredHolds == Spec => []ProfilesAnswered
<1>1. IInv => ProfilesAnswered
  <2> DEFINE at == LastReadingAt(fetch)
             change == ChangeAt(fetch)
             listed == fetch.anomalies.data.value
  <2> SUFFICES ASSUME IInv, page[1] = "meter", Rest, faults = 0, fetch.before.error \/ fetch.after.error,
                      Main(fetch, page[2]) # Null, ~ (change <= at + 1 - FullSpan)
               PROVE  change > at /\ listed > announced
    BY DEF ProfilesAnswered
  <2>1. HooksOf(page) = {"meter", "anomalies", "detail", "readings", "events", "before", "after"} /\ page[2] \in Int
    BY IInvHooks, PageKinds, MeterPages, MeterHook
  <2>2. \A h \in HooksOf(page) : Refused(fetch[h])
    BY DEF IInv
  <2>3. ~ fetch.meter.error /\ ~ fetch.anomalies.error /\ ~ fetch.detail.error
    <3>1. /\ Len(fetch.meter.path) = 1 /\ fetch.meter.path # Null
          /\ Len(fetch.anomalies.path) = 1 /\ fetch.anomalies.path # Null
      BY <2>1, ListPath DEF Lists
    <3>2. Len(fetch.detail.path) = 2 /\ fetch.detail.path # Null
      <4>1. fetch.detail.path = <<listed, page[2]>> /\ listed \in Int
        BY <2>1, FetchShape, IInvHooks, MainIs, MeterHook
      <4>2. QED
        BY <2>1, <4>1, Tuples
    <3>3. Refused(fetch.meter) /\ Refused(fetch.anomalies) /\ Refused(fetch.detail)
      BY <2>1, <2>2
    <3>4. QED
      BY <3>1, <3>2, <3>3 DEF Refused
  <2>4. /\ at \in Nat /\ change \in Nat /\ Covers(page[2], at)
        /\ \A h \in RangeHooks : fetch[h].path = RangePath(h, page[2], at, change, days)
    BY <2>3, DetailAtRest
  <2>5. change # None /\ change = found[listed][page[2]]
    BY <2>3, MainAtRest
  <2>6. fetch.before.path = <<page[2], at + 1 - FullSpan, change>> /\ fetch.after.path = <<page[2], change, at + 1>>
    BY <2>4, <2>5, RangePaths DEF RangeHooks
  <2>7. /\ FullSpan \in Nat /\ MaxSpan \in Nat /\ FullSpan <= MaxSpan /\ at + 1 - FullSpan \in Int /\ at + 1 \in Int
        /\ change > at + 1 - FullSpan
    BY <2>4, PagesBounds
  <2>8. change > at
    <3>1. SUFFICES ASSUME change <= at PROVE FALSE
      BY <2>4
    <3>2. RangeAccepted(fetch.before.path) /\ RangeAccepted(fetch.after.path)
      <4>1. /\ fetch.before.path[2] = at + 1 - FullSpan /\ fetch.before.path[3] = change
            /\ fetch.after.path[2] = change /\ fetch.after.path[3] = at + 1
        BY <2>1, <2>4, <2>6, <2>7, Tuples
      <4>2. QED
        BY <2>4, <2>7, <3>1, <4>1 DEF RangeAccepted
    <3>3. fetch.before.path # Null /\ fetch.after.path # Null
      BY <2>1, <2>4, <2>6, <2>7, Tuples
    <3>4. QED
      BY <2>1, <2>2, <3>2, <3>3 DEF Refused
  <2>9. listed > announced
    <3>1. listed >= announced /\ announced \in Nat /\ listed \in Nat
      <4>1. NotOlder(fetch.anomalies) /\ fetch.anomalies.pc = "off" /\ fetch.anomalies.path # Null
        BY <2>1, IInvHooks, ListPath DEF HookOf, ListHooks, Lists, Rest
      <4>2. announced \in Nat
        BY IInvHooks DEF Types, Completed
      <4>3. QED
        BY <2>3, <4>1, <4>2, IInvHooks DEF NotOlder
    <3>2. listed # announced
      <4>1. SUFFICES ASSUME listed = announced PROVE FALSE
        OBVIOUS
      <4>2. announced # 0
        BY <4>1, MainAtRest, <2>3
      <4>3. change <= at
        BY <2>4, <2>5, <4>1, <4>2 DEF Covers
      <4>4. QED
        BY <2>4, <2>8, <4>3
    <3>3. QED
      BY <3>1, <3>2
  <2>10. QED
    BY <2>8, <2>9
<1>2. QED
  BY <1>1, PagesInvariant, PTL
=============================================================================
