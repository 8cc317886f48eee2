----------------------------- MODULE SiteProofs -----------------------------
(***************************************************************************)
(* Proofs about SiteRefresh and the exploration it composes, for any site, *)
(* tools, recipes, costs and limits.                                       *)
(*                                                                         *)
(* What a result says is settled step by step long before it is built, so  *)
(* the invariant (SiteInv) says of every place what is known there: what   *)
(* has not begun (Untouched), what discovery found and from which tool     *)
(* (Discovered), what the visits left in the reasons to stop (Reasons),    *)
(* why the visits ended (Visiting), what a replay has of the pages it      *)
(* visited (Replayed), and what a recovery may still spend and what it     *)
(* was refused (Recovered).                                                *)
(***************************************************************************)
EXTENDS SiteRefresh, FiniteSetTheorems, WellFoundedInduction, TLAPS

Places == {"source", "rediscover", "revisit", "recover", "seed", "offer", "discover", "visit",
           "build", "explored", "done", "raised"}
Replaying == at \in {"source", "rediscover", "revisit", "recover"}
Exploring == at \in {"seed", "offer", "discover", "visit", "build", "explored"}

\* How runs end without a page, and candidates for which none was started.
Failing == {"technical", "refused", "shared", "tries"} \cup Stopped
Endings == {"none", "mismatch", "unfunded"} \cup Failing

WellRun(run) ==
  /\ run.page \in Urls \cup {None} /\ run.tried \in BOOLEAN
  /\ run.page # None => run.tried /\ run.code \in {"none", "cancelled"}
  /\ run.page = None => run.code \in Endings /\ (run.tried => run.code \in Failing)

SiteTypes ==
  /\ goal \in BOOLEAN /\ at \in Places /\ WellRun(seed) /\ seed.code \notin {"mismatch", "unfunded"}
  /\ search \in [Finders -> {"absent", "todo", "passed", "blocked", "failed", "cancelled", "partial", "complete"}]
  /\ hits \in [Finders -> SUBSET Urls] /\ found \subseteq Urls
  /\ DOMAIN visits \subseteq found /\ \A u \in DOMAIN visits : WellRun(visits[u])
  /\ stops \subseteq {"shared", "tries", "cancelled", "refused"}
  /\ left \in Int /\ fetches \in [Urls -> Nat] /\ others \in [Urls -> Nat] /\ base \in [Urls -> Nat]
  /\ charged \in Nat /\ barred \in BOOLEAN /\ cut \in BOOLEAN
  /\ Replaying => skill \in Skills
  /\ pages \subseteq Urls /\ failed \subseteq Urls /\ named \subseteq Urls
  /\ explored # None => at \in {"explored", "done"}
  /\ report # None => at = "done"

\* What has not begun where: nothing is found before discovery, and nothing visited.
Untouched ==
  /\ at \in {"source", "rediscover", "recover", "seed", "offer"} => found = {}
  /\ at \in {"source", "rediscover", "recover", "seed", "offer", "discover"} => DOMAIN visits = {}
  /\ at \in {"source", "rediscover", "recover", "revisit", "seed", "offer"} => stops = {}
  /\ at \in {"rediscover", "recover", "revisit"} => seed.page \in Urls \ Abroad
  /\ at \in {"offer", "discover", "visit"} => seed.page # None /\ seed.code = "none"
  /\ at = "build" /\ (seed.page = None \/ seed.code = "cancelled") => stops = {} /\ DOMAIN visits = {}

\* Every candidate is of a discovery tool that succeeded.
Discovered ==
  at \in {"discover", "visit", "build"} =>
    \A u \in found : u # seed.page /\ \E f \in Succeeded : u \in hits[f]

\* At most one reason ends a search, besides a candidate without attempts; and what a run
\* of a candidate came to is among them.
Reasons ==
  at \in {"discover", "visit", "build", "explored"} =>
    /\ \A s, t \in stops \ {"tries"} : s = t
    /\ "refused" \in stops => goal
    /\ \A u \in DOMAIN visits :
         /\ visits[u].code \in {"shared", "tries"} => visits[u].code \in stops
         /\ visits[u].code = "unfunded" => stops \cap {"shared", "tries"} # {}
         /\ visits[u].page = None /\ visits[u].code \in Stopped => "cancelled" \in stops

\* The visits end for a reason, with enough, or with every candidate.
Visiting ==
  at = "build" /\ seed.page # None /\ seed.code # "cancelled" =>
    stops # {} \/ Enough \/ Available \subseteq DOMAIN visits

\* What a replay that goes on has: each of its visits a page, or a failure that is
\* technical; and an update only if another tool served.
Replayed ==
  /\ at = "source" => update = None
  /\ at \in {"rediscover", "revisit"} =>
       /\ seed.page \in pages /\ update \in {None, "tool"}
       /\ update = "tool" => \E r \in {visits[u] : u \in DOMAIN visits} \cup {seed} :
                                r.page # None /\ r.by # skill.tool
  /\ at = "revisit" =>
       /\ found = named
       /\ \A u \in DOMAIN visits :
            /\ visits[u].tried /\ visits[u].page \notin Abroad
            /\ visits[u].page # None => visits[u].page \in pages
            /\ visits[u].page = None => visits[u].code = "technical" /\ u \in failed

\* The attempts at the seed of a recovery are those of the replay and those charged, and a
\* refusal bars it.
SeedAlone == seed.page = Seed /\ \A u \in DOMAIN visits : visits[u].page # Seed

Recovered ==
  /\ \A u \in Urls : fetches[u] <= Tries
  /\ Replaying => ~Recovering /\ charged = 0
  /\ at = "recover" => others[seed.page] > 0
  /\ Exploring /\ Refreshing => Recovering
  /\ Recovering => base[Seed] <= Tries
  /\ at = "seed" /\ Recovering => Tried(Seed) = base[Seed] /\ charged = 0
  /\ at # "seed" /\ Recovering /\ SeedAlone =>
       Tried(Seed) = base[Seed] + charged /\ Tried(Seed) <= Tries
  /\ Recovering /\ Exploring => \A u \in DOMAIN visits :
       visits[u].tried /\ visits[u].page = None /\ visits[u].code = "refused" => barred

\* What a recipe of the exploration was built on.
Explored ==
  at = "explored" /\ explored.recipe # None =>
    /\ seed.page # None /\ stops = {} /\ ~barred /\ Todo = {}
    /\ SomeFailed => goal /\ search[explored.recipe] = "complete"
    /\ explored.recipe \in Finders
    /\ \E u \in hits[explored.recipe] \cap DOMAIN visits :
         visits[u].by = seed.by /\ visits[u].page # None /\ Host(visits[u].page) = Host(seed.page)

SiteInv ==
  SiteTypes /\ Untouched /\ Discovered /\ Reasons /\ Visiting /\ Replayed /\ Recovered /\ Explored

-----------------------------------------------------------------------------
(* Runs and what they cost *)

\* What is known of a run, whatever became of it.
KnownRun(u, r) ==
  /\ WellRun(r.run) /\ r.calls \in Nat /\ r.turns \in 0..1 /\ r.cost \in Nat
  /\ r.run.page = None => r.turns = 0 /\ r.run.code \in Failing
  /\ r.run.page # None => r.calls > 0
  /\ r.run.code = "technical" => r.run.tried
  /\ r.calls > 0 => Tried(u) + r.calls <= Tries
  /\ r.turns = 1 => Transformable(u, r.run.kind, r.calls)

LEMMA StoredRunsAreKnown ==
  ASSUME SiteTypes, NEW u \in Urls, NEW first, NEW r \in StoredRuns(u, first) PROVE KnownRun(u, r)
  <1>1. r \in [run : [page : {u} \cup {v \in Urls : <<u, v>> \in Redirects}, kind : Kinds[goal],
                      by : Acquirers, code : {"none", "cancelled"}, tried : {TRUE}],
               calls : 1..(Tries - Tried(u)), turns : 0..1, cost : Costs]
        BY DEF StoredRuns
  <1>2. /\ r.run.page \in Urls /\ r.run.code \in {"none", "cancelled"} /\ r.run.tried = TRUE
        /\ r.calls \in 1..(Tries - Tried(u)) /\ r.turns \in 0..1 /\ r.cost \in Costs
        BY <1>1
  <1>3. r.turns = 1 => Transformable(u, r.run.kind, r.calls)
        BY DEF StoredRuns
  <1>4. Tried(u) \in Nat
        BY DEF Tried, SiteTypes
  <1>5. r.calls \in Nat /\ r.calls > 0 /\ Tried(u) + r.calls <= Tries
        BY <1>2, <1>4, LimitsArePositive
  <1>6. r.turns \in 0..1 /\ r.cost \in Nat
        BY <1>2, LimitsArePositive
  <1> QED BY <1>2, <1>3, <1>5, <1>6, SiteIsKnown DEF KnownRun, WellRun

LEMMA FailuresAreKnown ==
  ASSUME NEW codes, NEW tried \in BOOLEAN, NEW calls, NEW costs, NEW r \in Failures(codes, tried, calls, costs)
  PROVE  /\ r.run.page = None /\ r.run.code \in codes /\ r.run.tried \in BOOLEAN
         /\ r.calls \in calls /\ r.turns = 0 /\ r.cost \in costs
  <1>1. /\ r.run \in [page : {None}, kind : {"none"}, by : {None}, code : codes, tried : {tried}]
        /\ r.calls \in calls /\ r.turns = 0 /\ r.cost \in costs
        BY DEF Failures
  <1> QED BY <1>1

LEMMA FailedRunsAreKnown ==
  ASSUME SiteTypes, NEW u \in Urls, NEW r \in FailedRuns(u) PROVE KnownRun(u, r) /\ r.run.page = None
  <1> DEFINE tries == IF Tried(u) > Tries THEN 0 ELSE Tries - Tried(u)
  <1>1. Tried(u) \in Nat /\ tries \in Nat /\ Costs \subseteq Nat /\ (tries > 0 => Tried(u) + tries <= Tries)
        BY LimitsArePositive DEF Tried, SiteTypes
  <1> DEFINE Known(codes, calls) ==
        /\ codes \subseteq Failing
        /\ calls \subseteq Nat /\ \A n \in calls : n > 0 => Tried(u) + n <= Tries
  <1>2. ASSUME NEW codes, NEW tried \in BOOLEAN, NEW calls, NEW costs \in SUBSET Costs, Known(codes, calls),
               "technical" \in codes => tried = TRUE, r \in Failures(codes, tried, calls, costs)
        PROVE  KnownRun(u, r) /\ r.run.page = None
    <2>1. /\ r.run.page = None /\ r.run.code \in codes /\ r.run.tried \in BOOLEAN
          /\ r.calls \in calls /\ r.turns = 0 /\ r.cost \in costs
          BY <1>2, FailuresAreKnown, Zenon
    <2>2. r.calls \in Nat /\ r.cost \in Nat /\ (r.calls > 0 => Tried(u) + r.calls <= Tries)
          BY <1>1, <1>2, <2>1
    <2>3. r.run.code \in Failing
          BY <1>2, <2>1
    <2>4. ASSUME r.run.code = "technical" PROVE r.run.tried
      <3>1. r \in Failures(codes, TRUE, calls, costs)
            BY <1>2, <2>1, <2>4
      <3>2. r.run \in [page : {None}, kind : {"none"}, by : {None}, code : codes, tried : {TRUE}]
            BY <3>1 DEF Failures
      <3> QED BY <3>2
    <2> QED BY <2>1, <2>2, <2>3, <2>4 DEF KnownRun, WellRun, Endings, Failing
  <1>3. \/ r \in Failures({"refused", IF tries = 0 THEN "tries" ELSE "halted"}, FALSE, {0}, {0})
        \/ r \in Failures({"tries"}, TRUE, {tries} \ {0}, {c \in Costs : c < left})
        \/ r \in Failures({"halted"}, TRUE, 1..(tries - 1), {c \in Costs : c < left})
        \/ r \in Failures({"technical", "refused", "cancelled"}, TRUE, 1..tries, {c \in Costs : c <= left})
        \/ r \in Failures({"shared"}, TRUE, 1..tries, {c \in Costs : c >= left})
        \/ r \in Failures({"overran"}, TRUE, 1..tries, {c \in Costs : c > left})
        BY DEF FailedRuns
  <1> HIDE DEF tries
  <1>4. /\ Known({"tries"}, {tries} \ {0}) /\ Known({"halted"}, 1..(tries - 1))
        /\ Known({"technical", "refused", "cancelled"}, 1..tries) /\ Known({"shared"}, 1..tries)
        /\ Known({"overran"}, 1..tries)
    <2>1. \A n \in 1..tries : n \in Nat /\ Tried(u) + n <= Tries
          BY <1>1, LimitsArePositive
    <2>2. \A n \in 1..(tries - 1) : n \in 1..tries
          BY <1>1
    <2>3. tries \in {tries} \ {0} => tries \in 1..tries
          BY <1>1
    <2>4. {tries} \ {0} \subseteq 1..tries /\ 1..(tries - 1) \subseteq 1..tries
          BY <2>2, <2>3
    <2> QED BY <2>1, <2>4 DEF Stopped, Failing
  <1>5. ASSUME r \in Failures({"refused", IF tries = 0 THEN "tries" ELSE "halted"}, FALSE, {0}, {0})
        PROVE  KnownRun(u, r) /\ r.run.page = None
    <2> DEFINE codes == {"refused", IF tries = 0 THEN "tries" ELSE "halted"}
    <2>1. codes \subseteq {"refused", "tries", "halted"}
          OBVIOUS
    <2>2. r \in Failures(codes, FALSE, {0}, {0})
          BY <1>5
    <2> HIDE DEF codes
    <2>3. /\ r.run.page = None /\ r.run.code \in codes /\ r.run.tried \in BOOLEAN
          /\ r.calls \in {0} /\ r.turns = 0 /\ r.cost \in {0}
          BY <2>2, FailuresAreKnown, Zenon
    <2>4. r.run.code \in {"refused", "tries", "halted"} /\ r.calls = 0 /\ r.cost = 0
          BY <2>1, <2>3
    <2> QED BY <2>3, <2>4 DEF KnownRun, WellRun, Endings, Failing, Stopped
  <1> HIDE DEF Known
  <1>6. \A P \in {{c \in Costs : c < left}, {c \in Costs : c <= left}, {c \in Costs : c >= left},
                  {c \in Costs : c > left}} : P \in SUBSET Costs
        OBVIOUS
  <1> QED BY <1>2, <1>3, <1>4, <1>5, <1>6

LEMMA RunsAreKnown ==
  ASSUME SiteTypes, NEW u \in Urls, NEW first, NEW r \in Runs(u, first) PROVE KnownRun(u, r)
  <1>1. CASE ~barred
        BY <1>1, StoredRunsAreKnown, FailedRunsAreKnown DEF Runs
  <1>2. CASE barred
    <2>1. /\ r.run.page = None /\ r.run.code \in {"refused", "halted"} /\ r.run.tried \in BOOLEAN
          /\ r.calls \in {0} /\ r.turns = 0 /\ r.cost \in {0}
          BY <1>2, FailuresAreKnown, Zenon DEF Runs
    <2> QED BY <2>1 DEF KnownRun, WellRun, Endings, Failing, Stopped
  <1> QED BY <1>1, <1>2

\* What charging a run does, of which the rest is used only through this.
LEMMA ChargeIsKnown ==
  ASSUME SiteTypes, \A v \in Urls : fetches[v] <= Tries, NEW u \in Urls, NEW r, KnownRun(u, r), Charge(u, r)
  PROVE  /\ left' \in Int /\ fetches' \in [Urls -> Nat] /\ others' \in [Urls -> Nat] /\ base' = base
         /\ charged' \in Nat /\ barred' \in BOOLEAN /\ cut' \in BOOLEAN
         /\ \A v \in Urls : fetches'[v] <= Tries
         /\ Recovering' = Recovering
         /\ \A v \in Urls : fetches'[v] = fetches[v] + (IF v = u THEN r.calls ELSE 0)
         /\ \A v \in Urls : others'[v] = others[v] + (IF v = r.run.page THEN r.turns ELSE 0)
         /\ charged' = charged + (IF Recovering /\ u = Seed THEN r.calls + r.turns ELSE 0)
         /\ barred => barred'
         /\ Recovering /\ r.run.tried /\ r.run.page = None /\ r.run.code = "refused" => barred'
  <1>1. r.calls \in Nat /\ r.turns \in 0..1 /\ r.cost \in Nat /\ (r.turns = 1 => r.run.page \in Urls)
        BY DEF KnownRun, WellRun
  <1>2. left' \in Int /\ base' = base /\ Recovering' = Recovering
        BY <1>1 DEF Charge, SiteTypes, Recovering
  <1>3. fetches' \in [Urls -> Nat] /\ \A v \in Urls : fetches'[v] = fetches[v] + (IF v = u THEN r.calls ELSE 0)
        BY <1>1 DEF Charge, SiteTypes
  <1>4. others' \in [Urls -> Nat] /\ \A v \in Urls : others'[v] = others[v] + (IF v = r.run.page THEN r.turns ELSE 0)
        BY <1>1 DEF Charge, SiteTypes
  <1>5. charged' \in Nat /\ charged' = charged + (IF Recovering /\ u = Seed THEN r.calls + r.turns ELSE 0)
        BY <1>1 DEF Charge, SiteTypes
  <1>6. \A v \in Urls : fetches'[v] <= Tries
        BY <1>1, <1>3, LimitsArePositive DEF KnownRun, Tried, SiteTypes
  <1>7. cut' \in BOOLEAN
        BY DEF Charge, SiteTypes
  <1>8. /\ barred' \in BOOLEAN /\ (barred => barred')
        /\ Recovering /\ r.run.tried /\ r.run.page = None /\ r.run.code = "refused" => barred'
        BY DEF Charge, SiteTypes
  <1> QED BY <1>2, <1>3, <1>4, <1>5, <1>6, <1>7, <1>8

-----------------------------------------------------------------------------
(* Each step of an exploration keeps the invariant *)

LEMMA SiteBegins == Init => SiteInv
  <1> SUFFICES ASSUME Init PROVE SiteInv
      OBVIOUS
  <1> USE DEF Init, NothingExplored
  <1>1. DOMAIN visits = {} /\ fetches = [u \in Urls |-> 0] /\ others = fetches /\ base = fetches
        OBVIOUS
  <1>2. WellRun(seed) /\ seed.code \notin {"mismatch", "unfunded"}
        BY DEF Failure, Run, WellRun, Endings, Failing
  <1>3. SiteTypes
    <2>1. goal \in BOOLEAN
          BY GoalsAreChoices
    <2>2. left \in Int
          BY LimitsArePositive
    <2>3. Replaying => skill \in Skills
          BY DEF Replaying
    <2>4. fetches \in [Urls -> Nat] /\ others \in [Urls -> Nat] /\ base \in [Urls -> Nat]
          BY <1>1
    <2>5. at \in Places /\ charged \in Nat /\ barred \in BOOLEAN /\ cut \in BOOLEAN
          BY DEF Places
    <2>6. search \in [Finders -> {"absent"}] /\ hits \in [Finders -> SUBSET Urls] /\ stops = {} /\ found = {}
          OBVIOUS
    <2>7. pages = {} /\ failed = {} /\ named = {} /\ explored = None /\ report = None
          OBVIOUS
    <2> QED BY <1>1, <1>2, <2>1, <2>2, <2>3, <2>4, <2>5, <2>6, <2>7 DEF SiteTypes
  <1>4. ~Recovering /\ charged = 0
        BY <1>1 DEF Recovering
  <1>5. Recovered
    <2>1. at \in {"seed", "source"} /\ (at = "seed" => ~Refreshing)
          BY DEF Refreshing
    <2>2. \A u \in Urls : fetches[u] <= Tries
          BY <1>1, LimitsArePositive
    <2> HIDE DEF Init, NothingExplored
    <2> QED BY <1>4, <2>1, <2>2 DEF Recovered, Exploring
  <1> QED BY <1>1, <1>3, <1>5 DEF SiteInv, Untouched, Discovered, Reasons, Visiting, Replayed, Explored

LEMMA SeedKeeps == ASSUME SiteInv, RunSeed, UNCHANGED refreshVars PROVE SiteInv'
  <1>1. PICK r \in Runs(Seed, Preferred) :
          /\ Charge(Seed, r) /\ seed' = r.run
          /\ at' = IF r.run.page = None \/ r.run.code = "cancelled" THEN "build" ELSE "offer"
        BY DEF RunSeed
  <1>2. KnownRun(Seed, r)
        BY RunsAreKnown, SiteIsKnown DEF SiteInv
  <1>3. /\ at = "seed" /\ at' \in {"build", "offer"} /\ found' = {} /\ DOMAIN visits' = {} /\ stops' = {}
        /\ UNCHANGED <<goal, search, hits, found, visits, stops, explored>> /\ UNCHANGED refreshVars
        BY <1>1 DEF RunSeed, SiteInv, Untouched
  <1>4. /\ left' \in Int /\ fetches' \in [Urls -> Nat] /\ others' \in [Urls -> Nat] /\ base' = base
        /\ charged' \in Nat /\ barred' \in BOOLEAN /\ cut' \in BOOLEAN
        /\ \A v \in Urls : fetches'[v] <= Tries
        /\ Recovering' = Recovering
        /\ \A v \in Urls : fetches'[v] = fetches[v] + (IF v = Seed THEN r.calls ELSE 0)
        /\ \A v \in Urls : others'[v] = others[v] + (IF v = r.run.page THEN r.turns ELSE 0)
        /\ charged' = charged + (IF Recovering THEN r.calls + r.turns ELSE 0)
        BY <1>1, <1>2, ChargeIsKnown, SiteIsKnown DEF SiteInv, Recovered
  <1>5. SiteTypes'
        BY <1>1, <1>2, <1>3, <1>4 DEF SiteInv, SiteTypes, Places, KnownRun, WellRun, Stopped, Failing, Replaying, refreshVars
  <1>6. Untouched'
        BY <1>1, <1>2, <1>3 DEF Untouched, KnownRun, WellRun
  <1>7. Recovered'
    <2>1. ASSUME Recovering, SeedAlone'
          PROVE  Tried(Seed)' = base'[Seed] + charged' /\ Tried(Seed)' <= Tries
      <3>1. r.run.page = Seed /\ r.calls \in Nat /\ r.turns \in 0..1
            BY <1>1, <1>2, <2>1 DEF SeedAlone, KnownRun
      <3>2. Tried(Seed)' = Tried(Seed) + r.calls + r.turns
            BY <1>4, <3>1, SiteIsKnown DEF Tried, SiteInv, SiteTypes
      <3>3. Tried(Seed) = base[Seed] /\ charged = 0 /\ base[Seed] <= Tries
            BY <1>3, <2>1 DEF SiteInv, Recovered
      <3>4. Tried(Seed) + r.calls <= Tries
            BY <1>2, <3>1, SiteIsKnown DEF KnownRun
      <3>5. r.turns = 1 => charged + r.calls < SourceAllowance
            BY <1>2, <2>1 DEF KnownRun, Transformable
      <3>6. base[Seed] \in Nat /\ Tries \in Nat
            BY SiteIsKnown, LimitsArePositive DEF SiteInv, SiteTypes
      <3> QED BY <1>4, <2>1, <3>1, <3>2, <3>3, <3>4, <3>5, <3>6 DEF SourceAllowance
    <2>2. Refreshing' = Refreshing
          BY DEF Refreshing, refreshVars
    <2> QED BY <1>3, <1>4, <2>1, <2>2 DEF Recovered, Exploring, Replaying, SiteInv
  <1> QED BY <1>1, <1>3, <1>5, <1>6, <1>7 DEF SiteInv, Discovered, Reasons, Visiting, Replayed, Explored

LEMMA OfferKeeps == ASSUME SiteInv, OfferTools, UNCHANGED refreshVars PROVE SiteInv'
  <1>1. /\ at = "offer" /\ at' = "discover" /\ found' = {} /\ DOMAIN visits' = {} /\ stops' = {}
        /\ UNCHANGED <<goal, seed, hits, found, visits, stops, left, fetches, others, base, charged,
                       barred, explored>> /\ UNCHANGED refreshVars
        BY DEF OfferTools, SiteInv, Untouched
  <1>2. cut' \in BOOLEAN
        BY DEF OfferTools, SiteInv, SiteTypes
  <1>3. search' \in [Finders -> {"absent", "todo"}]
        BY DEF OfferTools
  <1>4. SiteTypes'
        BY <1>1, <1>2, <1>3 DEF SiteInv, SiteTypes, Places, Replaying, WellRun, refreshVars
  <1>5. Recovered'
        BY <1>1 DEF SiteInv, Recovered, Recovering, Refreshing, SeedAlone, Tried, Exploring, Replaying, refreshVars
  <1> QED BY <1>1, <1>4, <1>5 DEF SiteInv, Untouched, Discovered, Reasons, Visiting, Replayed, Explored

\* Discovery tools have ids, so that of any of them one is the first.
LEMMA LeastFinder ==
  ASSUME NEW S \in SUBSET Finders, S # {} PROVE \E f \in S : \A g \in S : f <= g
  <1> DEFINE R == OpToRel(<, Nat)
  <1>1. \A f, g \in Nat : <<g, f>> \in R <=> g < f
        BY DEF OpToRel
  <1>2. IsWellFoundedOn(R, Nat) /\ S \subseteq Nat
        BY NatLessThanWellFounded, FindersAreRanked
  <1> HIDE DEF R
  <1>3. PICK f \in S : \A g \in S : ~ (<<g, f>> \in R)
        BY <1>2, WFMin
  <1>4. ASSUME NEW g \in S PROVE f <= g
    <2>1. f \in Nat /\ g \in Nat /\ ~ (g < f)
          BY <1>1, <1>2, <1>3
    <2> QED BY <2>1
  <1> QED BY <1>4

LEMMA NextFinderIsTodo == ASSUME Todo # {} PROVE NextFinder \in Todo /\ NextFinder \in Finders
  <1> DEFINE first == IF goal /\ Todo \cap Aware # {} THEN Todo \cap Aware ELSE Todo
  <1>1. first \subseteq Todo /\ first # {} /\ Todo \subseteq Finders
        BY DEF Todo
  <1>2. \E f \in first : \A g \in first : f <= g
        BY <1>1, LeastFinder
  <1>3. NextFinder \in first
        BY <1>2 DEF NextFinder
  <1> QED BY <1>1, <1>3

LEMMA ProvenanceSucceeded ==
  ASSUME NEW u, \E f \in Succeeded : u \in hits[f]
  PROVE  Provenance(u) \in Succeeded /\ u \in hits[Provenance(u)] /\ Provenance(u) \in Finders
  <1> DEFINE S == {f \in Succeeded : u \in hits[f]}
  <1>1. S \subseteq Finders /\ S # {}
        BY DEF Succeeded
  <1>2. PICK f \in S : \A g \in S : f <= g
        BY <1>1, LeastFinder
  <1>3. f \in Succeeded /\ u \in hits[f] /\ \A g \in Succeeded : u \in hits[g] => f <= g
        BY <1>2
  <1>4. Provenance(u) \in Succeeded /\ u \in hits[Provenance(u)]
        BY <1>3 DEF Provenance
  <1> QED BY <1>4 DEF Succeeded

\* What a discovery tool did: only a success adds candidates, and only its own.
LEMMA FoundKeeps ==
  ASSUME SiteTypes, at = "discover", at' = at, stops = {}, Untouched, Discovered, NEW f \in Finders,
         search[f] = "todo", NEW how \in {"failed", "cancelled", "partial", "complete"},
         NEW urls \in SUBSET Urls, how \in {"failed", "cancelled"} => urls = {},
         NEW cost \in Nat, Found(f, how, urls, cost), UNCHANGED seed
  PROVE  /\ search' \in [Finders -> {"absent", "todo", "passed", "blocked", "failed", "cancelled",
                                      "partial", "complete"}]
         /\ hits' \in [Finders -> SUBSET Urls] /\ left' \in Int /\ cut' = cut
         /\ \A v \in Urls : others'[v] = others[v] + (IF v = seed.page THEN 1 ELSE 0)
         /\ others' \in [Urls -> Nat] /\ charged' \in Nat
         /\ charged' = charged + (IF Recovering /\ seed.page = Seed THEN 1 ELSE 0)
         /\ stops' \subseteq {"cancelled", "shared"} /\ (\A s, t \in stops' : s = t)
         /\ found' \subseteq Urls /\ found \subseteq found'
         /\ Discovered'
  <1>1. /\ search' = [search EXCEPT ![f] = how] /\ hits' = [hits EXCEPT ![f] = urls]
        /\ left' = left - cost /\ others' = [others EXCEPT ![seed.page] = @ + 1]
        /\ charged' = (IF Recovering /\ seed.page = Seed THEN charged + 1 ELSE charged) /\ cut' = cut
        BY DEF Found
  <1>2. seed.page \in Urls
        BY DEF Untouched, SiteTypes, WellRun
  <1>3. /\ search' \in [Finders -> {"absent", "todo", "passed", "blocked", "failed", "cancelled",
                                      "partial", "complete"}]
        /\ hits' \in [Finders -> SUBSET Urls]
        BY <1>1 DEF SiteTypes
  <1>4. /\ left' \in Int /\ others' \in [Urls -> Nat] /\ charged' \in Nat
        /\ \A v \in Urls : others'[v] = others[v] + (IF v = seed.page THEN 1 ELSE 0)
        /\ charged' = charged + (IF Recovering /\ seed.page = Seed THEN 1 ELSE 0)
        BY <1>1, <1>2 DEF SiteTypes
  <1>5. \/ found' = found /\ stops' \in {{"cancelled"}, {"shared"}}
        \/ how # "cancelled" /\ found' = found \cup (urls \ {seed.page}) /\ stops' = {}
        BY DEF Found
  <1>6. found' \subseteq Urls /\ found \subseteq found' /\ stops' \subseteq {"cancelled", "shared"}
        /\ \A s, t \in stops' : s = t
        BY <1>5 DEF SiteTypes
  <1>7. Discovered'
    <2>1. ASSUME NEW u \in found' PROVE u # seed.page /\ \E g \in Succeeded' : u \in hits'[g]
      <3>1. CASE u \in found
        <4>1. PICK g \in Succeeded : u \in hits[g]
              BY <3>1 DEF Discovered
        <4>2. g \in Finders /\ g # f
              BY <4>1 DEF Succeeded
        <4>3. g \in Succeeded' /\ hits'[g] = hits[g]
              BY <1>1, <4>1, <4>2 DEF Succeeded, SiteTypes
        <4> QED BY <3>1, <4>1, <4>3 DEF Discovered
      <3>2. CASE u \notin found
        <4>1. how # "cancelled" /\ u \in urls /\ u # seed.page
              BY <1>5, <2>1, <3>2
        <4>2. how \in {"partial", "complete"}
              BY <4>1
        <4>3. f \in Succeeded' /\ hits'[f] = urls
              BY <1>1, <4>2 DEF Succeeded, SiteTypes
        <4> QED BY <4>1, <4>3
      <3> QED BY <3>1, <3>2
    <2> QED BY <2>1 DEF Discovered
  <1> QED BY <1>1, <1>3, <1>4, <1>6, <1>7

LEMMA DiscoverKeeps == ASSUME SiteInv, Discover, UNCHANGED refreshVars PROVE SiteInv'
  <1>1. /\ at = "discover" /\ at' = at /\ stops = {} /\ Todo # {} /\ DOMAIN visits = {} /\ explored = None
        /\ UNCHANGED <<goal, seed, visits, fetches, base, barred, explored>> /\ UNCHANGED refreshVars
        BY DEF Discover, SiteInv, Untouched, SiteTypes
  <1> DEFINE f == NextFinder
  <1>2. f \in Finders /\ search[f] = "todo"
        BY <1>1, NextFinderIsTodo DEF Todo
  <1> DEFINE Statuses == {"absent", "todo", "passed", "blocked", "failed", "cancelled", "partial", "complete"}
  \* What holds whichever way it goes.
  <1> DEFINE Known ==
        /\ search' \in [Finders -> Statuses] /\ hits' \in [Finders -> SUBSET Urls] /\ left' \in Int
        /\ cut' \in BOOLEAN /\ others' \in [Urls -> Nat] /\ charged' \in Nat
        /\ found' \subseteq Urls /\ stops' \subseteq {"cancelled", "shared", "tries"}
        /\ \A s, t \in stops' : s = t
        /\ Discovered'
        /\ \/ others' = others /\ charged' = charged
           \/ /\ \A v \in Urls : others'[v] = others[v] + (IF v = seed.page THEN 1 ELSE 0)
              /\ charged' = charged + (IF Recovering /\ seed.page = Seed THEN 1 ELSE 0)
              /\ ~Blocked
  <1>3. Known
    <2>1. ASSUME search' = [search EXCEPT ![f] = "passed"],
                 UNCHANGED <<hits, found, stops, left, others, charged, cut>>
          PROVE  Known
      <3>1. search' \in [Finders -> Statuses]
            BY <2>1 DEF SiteInv, SiteTypes
      <3>2. Succeeded \subseteq Succeeded'
            BY <1>2, <2>1 DEF Succeeded, SiteInv, SiteTypes
      <3>3. Discovered'
            BY <1>1, <2>1, <3>2 DEF Discovered, SiteInv
      <3> QED BY <1>1, <2>1, <3>1, <3>3 DEF SiteInv, SiteTypes
    <2>2. ASSUME stops' = {IF left <= 0 THEN "shared" ELSE "tries"},
                 UNCHANGED <<search, hits, found, left, others, charged, cut>>
          PROVE  Known
      <3>1. Discovered'
            BY <1>1, <2>2 DEF Discovered, Succeeded, SiteInv
      <3> QED BY <2>2, <3>1 DEF SiteInv, SiteTypes
    <2>3. ASSUME search' = [search EXCEPT ![f] = "blocked"], stops' = {"tries"}, cut' = TRUE,
                 UNCHANGED <<hits, found, left, others, charged>>
          PROVE  Known
      <3>1. search' \in [Finders -> Statuses]
            BY <2>3 DEF SiteInv, SiteTypes
      <3>2. Succeeded \subseteq Succeeded'
            BY <1>2, <2>3 DEF Succeeded, SiteInv, SiteTypes
      <3>3. Discovered'
            BY <1>1, <2>3, <3>2 DEF Discovered, SiteInv
      <3> QED BY <2>3, <3>1, <3>3 DEF SiteInv, SiteTypes
    <2>4. ASSUME ~Blocked, NEW cost \in Costs \cup {0}, NEW how \in {"failed", "cancelled", "partial", "complete"},
                 NEW urls \in SUBSET Urls, how \in {"failed", "cancelled"} => urls = {}, Found(f, how, urls, cost)
          PROVE  Known
      <3>1. cost \in Nat
            BY LimitsArePositive
      <3>2. /\ search' \in [Finders -> Statuses]
            /\ hits' \in [Finders -> SUBSET Urls] /\ left' \in Int /\ cut' = cut
            /\ \A v \in Urls : others'[v] = others[v] + (IF v = seed.page THEN 1 ELSE 0)
            /\ others' \in [Urls -> Nat] /\ charged' \in Nat
            /\ charged' = charged + (IF Recovering /\ seed.page = Seed THEN 1 ELSE 0)
            /\ stops' \subseteq {"cancelled", "shared"} /\ (\A s, t \in stops' : s = t)
            /\ found' \subseteq Urls /\ found \subseteq found'
            /\ Discovered'
        <4> HIDE DEF f
        <4> QED BY <1>1, <1>2, <2>4, <3>1, FoundKeeps DEF SiteInv
      <3> QED BY <2>4, <3>2 DEF SiteInv, SiteTypes
    <2> HIDE DEF Known
    <2>5. \/ /\ search' = [search EXCEPT ![f] = "passed"]
             /\ UNCHANGED <<hits, found, stops, left, others, charged, cut>>
          \/ /\ stops' = {IF left <= 0 THEN "shared" ELSE "tries"}
             /\ UNCHANGED <<search, hits, found, left, others, charged, cut>>
          \/ /\ search' = [search EXCEPT ![f] = "blocked"] /\ stops' = {"tries"} /\ cut' = TRUE
             /\ UNCHANGED <<hits, found, left, others, charged>>
          \/ /\ ~Blocked
             /\ \E cost \in Costs \cup {0} :
                  \/ \E how \in {"failed", "cancelled"} : Found(f, how, {}, cost)
                  \/ \E how \in {"partial", "complete"}, urls \in Links : Found(f, how, urls, cost)
          BY DEF Discover
    <2>6. Links \subseteq SUBSET Urls /\ {} \in SUBSET Urls
          BY SiteIsKnown
    <2> HIDE DEF f
    <2> QED BY <2>1, <2>2, <2>3, <2>4, <2>5, <2>6
  <1>4. Recovering' = Recovering /\ Refreshing' = Refreshing
        BY <1>1 DEF Recovering, Refreshing, refreshVars
  <1>5. SiteTypes'
        BY <1>1, <1>3 DEF SiteInv, SiteTypes, WellRun, Replaying, refreshVars
  <1>6. Recovered'
    <2>1. ASSUME Recovering, SeedAlone' PROVE Tried(Seed)' = base'[Seed] + charged' /\ Tried(Seed)' <= Tries
      <3>1. seed.page = Seed /\ SeedAlone
            BY <1>1, <2>1 DEF SeedAlone
      <3>2. Tried(Seed) = base[Seed] + charged /\ Tried(Seed) <= Tries /\ base[Seed] <= Tries
            BY <1>1, <2>1, <3>1 DEF SiteInv, Recovered
      <3>3. /\ fetches[Seed] \in Nat /\ others[Seed] \in Nat /\ base[Seed] \in Nat /\ charged \in Nat
            /\ Tries \in Nat
            BY SiteIsKnown, LimitsArePositive DEF SiteInv, SiteTypes
      <3>4. \/ others'[Seed] = others[Seed] /\ charged' = charged
            \/ others'[Seed] = others[Seed] + 1 /\ charged' = charged + 1 /\ charged < SourceAllowance
            BY <1>3, <2>1, <3>1, <3>3, SiteIsKnown DEF Blocked, SourceAllowance
      <3>5. Tried(Seed)' = fetches[Seed] + others'[Seed] /\ Tried(Seed) = fetches[Seed] + others[Seed]
            BY <1>1 DEF Tried
      <3>6. base' = base /\ SourceAllowance = Tries - base[Seed]
            BY <1>1, <3>2, <3>3 DEF SourceAllowance
      <3> QED BY <3>2, <3>3, <3>4, <3>5, <3>6
    <2> QED BY <1>1, <1>4, <2>1 DEF SiteInv, Recovered, Replaying, Exploring
  <1>7. Reasons' /\ Untouched'
        BY <1>1, <1>3 DEF SiteInv, Reasons, Untouched
  <1> QED BY <1>1, <1>3, <1>5, <1>6, <1>7 DEF SiteInv, Visiting, Replayed, Explored

LEMMA EndDiscoveryKeeps == ASSUME SiteInv, EndDiscovery, UNCHANGED refreshVars PROVE SiteInv'
  <1>1. /\ at = "discover" /\ at' = "visit"
        /\ UNCHANGED <<goal, seed, search, hits, found, visits, stops, ledger, explored>> /\ UNCHANGED refreshVars
        BY DEF EndDiscovery
  <1>2. SiteTypes'
        BY <1>1 DEF SiteInv, SiteTypes, Places, WellRun, Replaying, ledger, refreshVars
  <1>3. Recovered'
        BY <1>1 DEF SiteInv, Recovered, Recovering, Refreshing, SeedAlone, Tried, Exploring, Replaying, ledger,
                    refreshVars
  <1>4. Discovered' /\ Reasons' /\ Untouched'
        BY <1>1 DEF SiteInv, Discovered, Succeeded, Reasons, Untouched
  <1> QED BY <1>1, <1>2, <1>3, <1>4 DEF SiteInv, Visiting, Replayed, Explored

LEMMA SelectIs ==
  ASSUME NEW u, NEW run, Select(u, run)
  PROVE  /\ DOMAIN visits' = DOMAIN visits \cup {u} /\ visits'[u] = run
         /\ \A v \in DOMAIN visits : v # u => visits'[v] = visits[v]
  BY DEF Select

\* A run of a candidate, or none, with the reasons to stop it adds.
LEMMA SelectionKeeps ==
  ASSUME SiteInv, UNCHANGED refreshVars, at = "visit",
         UNCHANGED <<goal, at, seed, search, hits, found, explored>>,
         NEW u \in found, u \notin DOMAIN visits, stops \subseteq {"tries"},
         NEW run, WellRun(run), Select(u, run),
         NEW new \in SUBSET {"shared", "tries", "cancelled", "refused"}, stops' = stops \cup new,
         \A s, t \in new : s = t, "refused" \in new => goal,
         run.code \in {"shared", "tries"} => run.code \in new,
         run.code = "unfunded" => new \cap {"shared", "tries"} # {},
         run.page = None /\ run.code \in Stopped => "cancelled" \in new,
         left' \in Int, fetches' \in [Urls -> Nat], others' \in [Urls -> Nat], base' = base,
         charged' \in Nat, barred' \in BOOLEAN, cut' \in BOOLEAN, \A v \in Urls : fetches'[v] <= Tries,
         seed.page = Seed /\ run.page # Seed => charged' = charged /\ Tried(Seed)' = Tried(Seed),
         barred => barred', Recovering /\ run.tried /\ run.page = None /\ run.code = "refused" => barred'
  PROVE  SiteInv'
  <1>1. /\ DOMAIN visits' = DOMAIN visits \cup {u} /\ visits'[u] = run
        /\ \A v \in DOMAIN visits : visits'[v] = visits[v]
        BY SelectIs
  <1>2. SiteTypes'
    <2>1. \A v \in DOMAIN visits' : WellRun(visits'[v])
          BY <1>1 DEF SiteInv, SiteTypes
    <2>2. (\A v \in DOMAIN visits : WellRun(visits[v]))' /\ WellRun(seed)'
          BY <2>1 DEF SiteInv, SiteTypes, WellRun
    <2> QED BY <1>1, <2>2 DEF SiteInv, SiteTypes, Replaying, refreshVars
  <1>3. Reasons'
    <2>1. \A s, t \in stops' \ {"tries"} : s = t
          OBVIOUS
    <2>2. "refused" \in stops' => goal
          BY DEF SiteInv, Reasons
    <2>3. ASSUME NEW v \in DOMAIN visits'
          PROVE  /\ visits'[v].code \in {"shared", "tries"} => visits'[v].code \in stops'
                 /\ visits'[v].code = "unfunded" => stops' \cap {"shared", "tries"} # {}
                 /\ visits'[v].page = None /\ visits'[v].code \in Stopped => "cancelled" \in stops'
      <3>1. CASE v = u
            BY <1>1, <3>1
      <3>2. CASE v \in DOMAIN visits
            BY <1>1, <3>2 DEF SiteInv, Reasons
      <3> QED BY <1>1, <2>3, <3>1, <3>2
    <2> QED BY <2>1, <2>2, <2>3 DEF Reasons
  <1>4. Discovered' /\ Untouched'
        BY DEF SiteInv, Discovered, Succeeded, Untouched
  <1>5. Recovering' = Recovering /\ Refreshing' = Refreshing
        BY DEF Recovering, Refreshing, refreshVars
  <1>6. Recovered'
    <2>1. ASSUME Recovering, SeedAlone' PROVE Tried(Seed)' = base'[Seed] + charged' /\ Tried(Seed)' <= Tries
      <3>1. SeedAlone /\ seed.page = Seed /\ run.page # Seed
            BY <1>1, <2>1 DEF SeedAlone
      <3>2. Tried(Seed) = base[Seed] + charged /\ Tried(Seed) <= Tries
            BY <2>1, <3>1 DEF SiteInv, Recovered
      <3> QED BY <3>1, <3>2
    <2>2. ASSUME Recovering, NEW v \in DOMAIN visits', visits'[v].tried, visits'[v].page = None,
                 visits'[v].code = "refused"
          PROVE  barred'
      <3>1. CASE v = u
            BY <1>1, <2>2, <3>1
      <3>2. CASE v \in DOMAIN visits
            BY <1>1, <2>2, <3>2 DEF SiteInv, Recovered, Exploring
      <3> QED BY <1>1, <2>2, <3>1, <3>2
    <2> QED BY <1>5, <2>1, <2>2 DEF SiteInv, Recovered, Replaying, Exploring
  <1> QED BY <1>2, <1>3, <1>4, <1>6 DEF SiteInv, Visiting, Replayed, Explored

LEMMA VisitKeeps == ASSUME SiteInv, NEW u \in Urls, Visit(u), UNCHANGED refreshVars PROVE SiteInv'
  <1>1. /\ at = "visit" /\ u \in found /\ u \notin DOMAIN visits /\ stops \subseteq {"tries"}
        /\ UNCHANGED <<goal, at, seed, search, hits, found, explored>>
        BY DEF Visit, ToVisit, Available, SiteInv, SiteTypes
  <1>2. u # seed.page /\ goal \in BOOLEAN
        BY <1>1 DEF SiteInv, Discovered, SiteTypes
  <1>3. ASSUME NEW code \in {"mismatch", "unfunded"}, NEW new \in SUBSET {"shared", "tries", "refused"},
               \A s, t \in new : s = t, "refused" \in new => goal,
               code = "unfunded" => new \cap {"shared", "tries"} # {},
               Select(u, Failure(code, FALSE)), stops' = stops \cup new, UNCHANGED ledger
        PROVE  SiteInv'
    <2> DEFINE run == Failure(code, FALSE)
    <2>1. run.page = None /\ run.code = code /\ run.tried = FALSE
          BY DEF Failure, Run
    <2>2. WellRun(run)
          BY <2>1 DEF WellRun, Endings, Failing
    <2>3. /\ run.code \notin {"shared", "tries", "refused"} \cup Stopped
          /\ run.code = "unfunded" => new \cap {"shared", "tries"} # {}
          BY <1>3, <2>1 DEF Stopped
    <2>4. /\ left' \in Int /\ fetches' \in [Urls -> Nat] /\ others' \in [Urls -> Nat] /\ base' = base
          /\ charged' \in Nat /\ barred' \in BOOLEAN /\ cut' \in BOOLEAN /\ charged' = charged
          /\ Tried(Seed)' = Tried(Seed) /\ (barred => barred') /\ \A v \in Urls : fetches'[v] <= Tries
          BY <1>3 DEF ledger, SiteInv, SiteTypes, Recovered, Tried
    <2>5. new \in SUBSET {"shared", "tries", "cancelled", "refused"}
          OBVIOUS
    <2>6. Select(u, run)
          BY <1>3
    <2> HIDE DEF run
    <2> QED BY <1>1, <1>3, <2>2, <2>3, <2>4, <2>5, <2>6, SelectionKeeps
  <1>4. ASSUME NEW r \in Runs(u, Preferred), Charge(u, r), Select(u, r.run), stops' = stops \cup StopsOf(r.run)
        PROVE  SiteInv'
    <2>1. KnownRun(u, r)
          BY RunsAreKnown DEF SiteInv
    <2>2. /\ left' \in Int /\ fetches' \in [Urls -> Nat] /\ others' \in [Urls -> Nat] /\ base' = base
          /\ charged' \in Nat /\ barred' \in BOOLEAN /\ cut' \in BOOLEAN
          /\ \A v \in Urls : fetches'[v] <= Tries
          /\ \A v \in Urls : fetches'[v] = fetches[v] + (IF v = u THEN r.calls ELSE 0)
          /\ \A v \in Urls : others'[v] = others[v] + (IF v = r.run.page THEN r.turns ELSE 0)
          /\ charged' = charged + (IF Recovering /\ u = Seed THEN r.calls + r.turns ELSE 0)
          /\ barred => barred'
          /\ Recovering /\ r.run.tried /\ r.run.page = None /\ r.run.code = "refused" => barred'
          BY <1>4, <2>1, ChargeIsKnown DEF SiteInv, Recovered
    <2>3. ASSUME seed.page = Seed, r.run.page # Seed
          PROVE  charged' = charged /\ Tried(Seed)' = Tried(Seed)
      <3>1. u # Seed /\ fetches[Seed] \in Nat /\ others[Seed] \in Nat /\ charged \in Nat
            BY <1>2, <2>3, SiteIsKnown DEF SiteInv, SiteTypes
      <3>2. fetches'[Seed] = fetches[Seed] /\ others'[Seed] = others[Seed] /\ charged' = charged
            BY <2>2, <2>3, <3>1, SiteIsKnown
      <3> QED BY <3>2 DEF Tried
    <2> DEFINE new == StopsOf(r.run)
    <2>4. /\ new \in SUBSET {"shared", "tries", "cancelled", "refused"}
          /\ \A s, t \in new : s = t
          /\ "refused" \in new => goal
          /\ r.run.code \in {"shared", "tries"} => r.run.code \in new
          /\ r.run.page = None /\ r.run.code \in Stopped => "cancelled" \in new
      <3>1. CASE goal /\ (r.run.code = "refused" \/ (r.run.page # None /\ Host(r.run.page) # Site))
        <4>1. new = {"refused"}
              BY <3>1 DEF StopsOf
        <4>2. r.run.code \in {"refused", "none", "cancelled"} /\ (r.run.page = None => r.run.code = "refused")
              BY <2>1, <3>1 DEF KnownRun, WellRun
        <4> QED BY <3>1, <4>1, <4>2 DEF Stopped
      <3>2. CASE ~(goal /\ (r.run.code = "refused" \/ (r.run.page # None /\ Host(r.run.page) # Site)))
        <4>1. new = {s \in {"shared", "tries"} : r.run.code = s} \cup {s \in {"cancelled"} : r.run.code \in Stopped}
              BY <3>2 DEF StopsOf
        <4> QED BY <4>1 DEF Stopped
      <3> QED BY <3>1, <3>2
    <2>5. WellRun(r.run) /\ r.run.code # "unfunded"
          BY <2>1 DEF KnownRun, WellRun, Stopped, Failing
    <2>6. stops' = stops \cup new
          BY <1>4
    <2> HIDE DEF new
    <2> QED BY <1>1, <1>4, <2>2, <2>3, <2>4, <2>5, <2>6, SelectionKeeps
  <1>5. \/ /\ Select(u, Failure("mismatch", FALSE))
           /\ stops' = stops \cup {s \in {"refused"} : goal} /\ UNCHANGED ledger
        \/ /\ Select(u, Failure("unfunded", FALSE))
           /\ stops' = stops \cup {IF left <= 0 THEN "shared" ELSE "tries"} /\ UNCHANGED ledger
        \/ \E r \in Runs(u, Preferred) : Charge(u, r) /\ Select(u, r.run) /\ stops' = stops \cup StopsOf(r.run)
        BY DEF Visit
  <1>6. CASE Select(u, Failure("mismatch", FALSE)) /\ stops' = stops \cup {s \in {"refused"} : goal}
             /\ UNCHANGED ledger
    <2> DEFINE new == {s \in {"refused"} : goal}
    <2>1. new \in SUBSET {"shared", "tries", "refused"} /\ (\A s, t \in new : s = t) /\ ("refused" \in new => goal)
          OBVIOUS
    <2>2. stops' = stops \cup new
          BY <1>6
    <2> HIDE DEF new
    <2> QED BY <1>3, <1>6, <2>1, <2>2
  <1>7. CASE Select(u, Failure("unfunded", FALSE)) /\ UNCHANGED ledger
             /\ stops' = stops \cup {IF left <= 0 THEN "shared" ELSE "tries"}
    <2> DEFINE new == {IF left <= 0 THEN "shared" ELSE "tries"}
    <2>1. /\ new \in SUBSET {"shared", "tries", "refused"} /\ (\A s, t \in new : s = t) /\ "refused" \notin new
          /\ new \cap {"shared", "tries"} # {}
          OBVIOUS
    <2>2. stops' = stops \cup new
          BY <1>7
    <2> HIDE DEF new
    <2> QED BY <1>3, <1>7, <2>1, <2>2
  <1> QED BY <1>4, <1>5, <1>6, <1>7

LEMMA EndVisitsKeeps == ASSUME SiteInv, EndVisits, UNCHANGED refreshVars PROVE SiteInv'
  <1>1. /\ at = "visit" /\ at' = "build" /\ ToVisit = {}
        /\ UNCHANGED <<goal, seed, search, hits, found, visits, stops, ledger, explored>> /\ UNCHANGED refreshVars
        BY DEF EndVisits
  <1>2. SiteTypes'
        BY <1>1 DEF SiteInv, SiteTypes, Places, WellRun, Replaying, ledger, refreshVars
  <1>3. Recovered'
        BY <1>1 DEF SiteInv, Recovered, Recovering, Refreshing, SeedAlone, Tried, Exploring, Replaying, ledger,
                    refreshVars
  <1>4. Discovered' /\ Reasons' /\ Untouched'
        BY <1>1 DEF SiteInv, Discovered, Succeeded, Reasons, Untouched
  <1>5. Visiting'
    <2>1. Enough \/ stops # {} \/ Available \subseteq DOMAIN visits
          BY <1>1 DEF ToVisit
    <2>2. Enough' = Enough /\ Available' = Available
          BY <1>1 DEF Enough, FileFound, Stored, Available, AwareSucceeded, Provenance, Succeeded
    <2> QED BY <1>1, <2>1, <2>2 DEF Visiting
  <1> QED BY <1>1, <1>2, <1>3, <1>4, <1>5 DEF SiteInv, Replayed, Explored

\* A recipe was built on: see Explored.
LEMMA RecipesAreFounded ==
  ASSUME SiteInv, at = "build", seed.page # None, NEW f \in Recipes
  PROVE  /\ stops = {} /\ ~barred /\ Todo = {} /\ f \in Finders
         /\ SomeFailed => goal /\ ~AwareSucceeded
         /\ Succeeded # {}
         /\ \E u \in hits[f] \cap DOMAIN visits :
              visits[u].by = seed.by /\ visits[u].page # None /\ Host(visits[u].page) = Host(seed.page)
  <1>1. Complete /\ ~barred /\ \E u \in Proven : f = Provenance(u)
        BY DEF Recipes
  <1>2. PICK u \in Proven : f = Provenance(u)
        BY <1>1
  <1>3. /\ u \in DOMAIN visits /\ visits[u].page # None /\ visits[u].by = seed.by
        /\ Host(visits[u].page) = Host(seed.page)
        BY <1>2 DEF Proven, Good, Stored, Site
  <1>4. \E g \in Succeeded : u \in hits[g]
        BY <1>3 DEF SiteInv, SiteTypes, Discovered
  <1>5. f \in Succeeded /\ u \in hits[f] /\ f \in Finders
        BY <1>2, <1>4, ProvenanceSucceeded
  <1>6. SomeFailed => goal /\ ~AwareSucceeded
        BY <1>1 DEF Complete, DiscoveryFailed
  <1> QED BY <1>1, <1>3, <1>5, <1>6 DEF Complete

LEMMA BuildKeeps == ASSUME SiteInv, Build, UNCHANGED refreshVars PROVE SiteInv'
  <1>1. /\ at = "build" /\ at' \in {"raised", "explored"}
        /\ UNCHANGED <<goal, seed, search, hits, found, visits, stops, ledger>> /\ UNCHANGED refreshVars
        BY DEF Build, Return
  <1>2. SiteTypes'
        BY <1>1 DEF Build, Return, SiteInv, SiteTypes, Places, WellRun, Replaying, ledger, refreshVars
  <1>3. Recovered'
        BY <1>1 DEF SiteInv, Recovered, Recovering, Refreshing, SeedAlone, Tried, Exploring, Replaying, ledger,
                    refreshVars
  <1>4. Discovered' /\ Reasons' /\ Untouched'
        BY <1>1 DEF SiteInv, Discovered, Reasons, Untouched
  <1>5. Explored'
    <2>1. SUFFICES ASSUME at' = "explored", explored'.recipe # None PROVE Explored'
          BY DEF Explored
    <2>2. SeedOutcome.recipe = None
          BY DEF SeedOutcome, Outcome
    <2>3. ASSUME NEW status, NEW stop, NEW complete PROVE Outcome(status, stop, complete, None).recipe = None
          BY DEF Outcome
    <2>4. PICK f \in Recipes : /\ explored' = Outcome("completed", "source_exhausted", TRUE, f)
                               /\ ~Refuses(Outcome("completed", "source_exhausted", TRUE, f))
                               /\ ~(seed.page = None \/ seed.code = "cancelled")
          BY <1>1, <2>1, <2>2, <2>3 DEF Build, Return
    <2>5. explored'.recipe = f /\ (SomeFailed => search[f] = "complete")
          BY <2>1, <2>4 DEF Refuses, Outcome
    <2>6. /\ stops = {} /\ ~barred /\ Todo = {} /\ f \in Finders
          /\ SomeFailed => goal /\ ~AwareSucceeded
          /\ \E u \in hits[f] \cap DOMAIN visits :
               visits[u].by = seed.by /\ visits[u].page # None /\ Host(visits[u].page) = Host(seed.page)
          BY <1>1, <2>4, <2>5, RecipesAreFounded
    <2>7. UNCHANGED <<goal, seed, search, hits, visits, stops, barred, Todo, SomeFailed>>
          BY <1>1 DEF ledger, Todo, SomeFailed
    <2> QED BY <2>4, <2>5, <2>6, <2>7 DEF Explored, Host
  <1> QED BY <1>1, <1>2, <1>3, <1>4, <1>5 DEF SiteInv, Visiting, Replayed

\* A result raises only if something was cancelled, or a file is required (see
\* RaisesOnlyWhenCancelled).
LEMMA BuildRaises == ASSUME SiteInv, Build, at' = "raised" PROVE RaisesOnlyWhenCancelled'
  <1>1. /\ at = "build" /\ UNCHANGED <<goal, seed, search, hits, found, visits, stops, ledger>>
        BY DEF Build
  <1>2. UNCHANGED <<Succeeded, AwareSucceeded>>
        BY <1>1 DEF Succeeded, AwareSucceeded
  <1> DEFINE Cancelled == \/ "cancelled" \in stops \/ seed.code \in Stopped
                          \/ goal /\ ({"refused", "tries"} \subseteq stops \/ (Succeeded # {} /\ ~AwareSucceeded))
                          \/ \E u \in DOMAIN visits : visits[u].code \in Stopped
  <1>3. SUFFICES Cancelled
        BY <1>1, <1>2 DEF RaisesOnlyWhenCancelled
  <1>4. \A status, stop, complete, f :
          LET outcome == Outcome(status, stop, complete, f) IN outcome.stop = stop /\ outcome.recipe = f
        BY DEF Outcome
  <1>5. CASE seed.page = None \/ seed.code = "cancelled"
    <2>1. Refuses(SeedOutcome) /\ stops = {} /\ DOMAIN visits = {}
          BY <1>1, <1>5 DEF Build, Return, SiteInv, Untouched
    <2>2. CASE seed.code \in Stopped
          BY <2>2
    <2>3. CASE seed.code \in {"shared", "tries"}
      <3>1. SeedOutcome = Outcome("partial", "budget_exhausted", FALSE, None)
            BY <2>3 DEF SeedOutcome, Stopped
      <3>2. SeedOutcome.stop = "budget_exhausted" /\ SeedOutcome.recipe = None
            BY <3>1 DEF Outcome
      <3> QED BY <2>1, <3>2 DEF Refuses
    <2>4. CASE seed.code \notin Stopped \cup {"shared", "tries"}
      <3>1. SeedOutcome.stop \in {"acquisition_failed", "rejected"} /\ SeedOutcome.recipe = None
            BY <2>4 DEF SeedOutcome, Outcome
      <3>2. seed.code # "unfunded"
            BY DEF SiteInv, SiteTypes
      <3> QED BY <2>1, <2>4, <3>1, <3>2 DEF Refuses, BudgetIsNamed, OutOfBudget, Stopped
    <2> QED BY <2>2, <2>3, <2>4
  \* What is left is an outcome of the search.
  <1>6. CASE seed.page # None /\ seed.code # "cancelled"
    <2>1. BudgetIsNamed => stops \cap {"shared", "tries"} # {} \/ "cancelled" \in stops
      <3>1. seed.code = "none"
            BY <1>6 DEF SiteInv, SiteTypes, WellRun
      <3>2. ASSUME NEW u \in DOMAIN visits, visits[u].code \in OutOfBudget
            PROVE  stops \cap {"shared", "tries"} # {} \/ "cancelled" \in stops
        <4>1. WellRun(visits[u])
              BY DEF SiteInv, SiteTypes
        <4>2. visits[u].page = None
              BY <3>2, <4>1 DEF WellRun, OutOfBudget
        <4> QED BY <1>1, <3>2, <4>2 DEF SiteInv, Reasons, OutOfBudget, Stopped
      <3> QED BY <3>1, <3>2 DEF BudgetIsNamed, OutOfBudget
    <2>2. CASE Recipes # {}
      <3>1. PICK f \in Recipes : Refuses(Outcome("completed", "source_exhausted", TRUE, f))
            BY <1>1, <1>6, <2>2 DEF Build, Return
      <3>2. stops = {} /\ (SomeFailed => goal /\ ~AwareSucceeded) /\ Succeeded # {}
            BY <1>1, <1>6, <3>1, RecipesAreFounded
      <3>3. SomeFailed
        <4> DEFINE outcome == Outcome("completed", "source_exhausted", TRUE, f)
        <4>1. outcome.stop = "source_exhausted" /\ outcome.recipe = f
              BY DEF Outcome
        <4> HIDE DEF outcome
        <4>2. Refuses(outcome)
              BY <3>1 DEF outcome
        <4> QED BY <2>1, <3>2, <4>1, <4>2 DEF Refuses
      <3> QED BY <3>2, <3>3
    <2>3. CASE Recipes = {}
      <3>1. PICK status : Refuses(Outcome(status, StopReason, Complete, None))
            BY <1>1, <1>6, <2>3 DEF Build, Return
      <3>2. \/ StopReason # "budget_exhausted" /\ BudgetIsNamed
            \/ StopReason = "discovery_failed" /\ Available # {} /\ ~NoneOffered /\ ~SomeFailed
            BY <1>4, <3>1 DEF Refuses
      <3>3. ASSUME StopReason # "budget_exhausted", BudgetIsNamed PROVE Cancelled
        <4>1. CASE "refused" \in stops
          <5>1. goal /\ \A s \in stops \ {"tries"} : s = "refused"
                BY <1>1, <4>1 DEF SiteInv, Reasons
          <5> QED BY <2>1, <3>3, <4>1, <5>1
        <4>2. CASE "refused" \notin stops /\ "cancelled" \notin stops
              BY <2>1, <3>3, <4>2 DEF StopReason
        <4> QED BY <4>1, <4>2
      <3>4. ASSUME StopReason = "discovery_failed", Available # {}, ~NoneOffered, ~SomeFailed PROVE Cancelled
        <4>1. stops = {} /\ (DiscoveryFailed \/ DOMAIN visits = {})
              BY <3>4 DEF StopReason
        <4>2. Succeeded # {}
              BY <1>1, <3>4 DEF Available, SiteInv, Discovered
        <4>3. CASE DiscoveryFailed
              BY <3>4, <4>2, <4>3 DEF DiscoveryFailed
        <4>4. CASE DOMAIN visits = {}
          <5>1. {u \in DOMAIN visits : visits[u].tried} = {} /\ Cardinality({}) = 0
                BY <4>4, FS_EmptySet
          <5>2. ~Enough
                BY <4>4, <5>1 DEF Enough, FileFound, Stored
          <5> QED BY <1>1, <1>6, <3>4, <4>1, <4>4, <5>2 DEF SiteInv, Visiting
        <4> QED BY <4>1, <4>3, <4>4
      <3> QED BY <3>2, <3>3, <3>4
    <2> QED BY <2>2, <2>3
  <1> QED BY <1>5, <1>6

-----------------------------------------------------------------------------
(* Each step of a replay keeps the invariant, and its endings are proven *)

Ended == at \in {"done", "raised"} => MissingIsProven /\ SkillsAreProven /\ RaisesOnlyWhenCancelled

LEMMA FinishIs ==
  ASSUME NEW complete \in BOOLEAN, NEW stop, NEW spent \in BOOLEAN, Finish(complete, stop, spent)
  PROVE  /\ at' = "done" /\ report'.stop \in {stop, "budget_exhausted"}
         /\ spent => report'.stop = "budget_exhausted"
         /\ report'.missing # {} =>
              complete /\ ~(left' < 0) /\ ~spent /\ report'.missing = known \ (pages' \cup failed')
  <1>1. at' = "done" /\ report' = Report(complete, stop, spent)
        BY DEF Finish
  <1> DEFINE over == left' < 0 \/ spent
  <1>2. /\ report'.stop = IF over THEN "budget_exhausted" ELSE stop
        /\ report'.missing = IF complete /\ ~over THEN known \ (pages' \cup failed') ELSE {}
        BY <1>1 DEF Report
  <1> QED BY <1>1, <1>2

\* An ending without a recipe of an exploration is proven if nothing is called missing and
\* its update, if it has one, is another tool that served.
LEMMA EndingIsProven ==
  ASSUME at' = "done", explored' = None, report'.missing = {},
         update' # None =>
           /\ update' = "tool" /\ report'.stop # "rejected" /\ seed'.page \notin Abroad
           /\ \A u \in DOMAIN visits' :
                visits'[u].page \notin Abroad /\ (visits'[u].code = "refused" => ~visits'[u].tried)
           /\ \E r \in {visits'[u] : u \in DOMAIN visits'} \cup {seed'} : r.page # None /\ r.by # skill'.tool
  PROVE  Ended'
  BY DEF Ended, MissingIsProven, SkillsAreProven, RaisesOnlyWhenCancelled

LEMMA ReplaySourceKeeps == ASSUME SiteInv, ReplaySource PROVE SiteInv' /\ Ended'
  <1>1. PICK r \in Runs(skill.source, skill.tool) :
          /\ Charge(skill.source, r) /\ seed' = r.run
          /\ \/ r.run.code = "halted" /\ Raise
             \/ /\ r.run.page = None /\ r.run.code # "halted"
                /\ failed' = {u \in {skill.source} : r.run.tried}
                /\ UNCHANGED <<pages, update>> /\ Finish(FALSE, TerminalStop(r.run), FALSE)
             \/ /\ r.run.page \in Abroad
                /\ UNCHANGED <<pages, failed, update>> /\ Finish(FALSE, "rejected", FALSE)
             \/ /\ r.run.page \in Urls \ Abroad
                /\ pages' = {r.run.page} /\ update' = ToolUpdate(r.run) /\ UNCHANGED failed
                /\ IF left' <= 0 \/ fetches'[skill.source] + others'[skill.source] >= Tries
                   THEN Finish(FALSE, "budget_exhausted", TRUE)
                   ELSE at' = "rediscover" /\ UNCHANGED report
        BY DEF ReplaySource
  <1>2. /\ at = "source" /\ skill.source \in Urls /\ skill.finder \in Finders
        /\ update = None /\ explored = None /\ report = None /\ found = {} /\ stops = {} /\ DOMAIN visits = {}
        /\ UNCHANGED <<goal, search, hits, found, visits, stops, explored, skill, known, named>>
    <2>1. at = "source" /\ skill \in Skills
          BY DEF ReplaySource, SiteInv, SiteTypes, Replaying
    <2>2. skill.source \in Urls /\ skill.finder \in Finders
          BY <2>1, SiteIsKnown DEF Skills
    <2> QED BY <2>1, <2>2 DEF ReplaySource, SiteInv, SiteTypes, Replayed, Untouched
  <1>3. KnownRun(skill.source, r)
        BY <1>2, RunsAreKnown DEF SiteInv
  <1>4. /\ left' \in Int /\ fetches' \in [Urls -> Nat] /\ others' \in [Urls -> Nat] /\ base' = base
        /\ charged' \in Nat /\ barred' \in BOOLEAN /\ cut' \in BOOLEAN
        /\ \A v \in Urls : fetches'[v] <= Tries
        /\ Recovering' = Recovering
        /\ charged' = charged + (IF Recovering /\ skill.source = Seed THEN r.calls + r.turns ELSE 0)
        BY <1>1, <1>2, <1>3, ChargeIsKnown DEF SiteInv, Recovered
  <1>5. ~Recovering /\ charged' = 0
        BY <1>2, <1>4 DEF SiteInv, Recovered, Replaying
  <1>6. at' \in {"raised", "done", "rediscover"} /\ (report' # None => at' = "done")
        BY <1>1, <1>2, FinishIs DEF Raise
  <1>7. pages' \subseteq Urls /\ failed' \subseteq Urls
        BY <1>1, <1>2, SiteIsKnown DEF Raise, SiteInv, SiteTypes
  <1>8. SiteTypes'
        BY <1>1, <1>2, <1>3, <1>4, <1>6, <1>7
           DEF SiteInv, SiteTypes, Places, KnownRun, WellRun, Stopped, Failing, Replaying
  <1>9. Recovered'
        BY <1>4, <1>5, <1>6 DEF Recovered, Replaying, Exploring
  <1>10. at' = "rediscover" =>
           /\ r.run.page \in Urls \ Abroad /\ seed'.page \in pages' /\ update' \in {None, "tool"}
           /\ update' = "tool" => r.run.page # None /\ r.run.by # skill.tool
        BY <1>1, <1>2, FinishIs, SiteIsKnown DEF Raise, ToolUpdate
  <1>11. Untouched' /\ Replayed'
        BY <1>1, <1>2, <1>6, <1>10 DEF Untouched, Replayed
  <1>12. Ended'
    <2>1. CASE r.run.code = "halted" /\ Raise
          BY <1>1, <1>2, <2>1 DEF Ended, Raise, MissingIsProven, SkillsAreProven, RaisesOnlyWhenCancelled, Stopped
    <2>2. CASE Finish(FALSE, TerminalStop(r.run), FALSE) /\ UNCHANGED update
          BY <1>2, <2>2, FinishIs, EndingIsProven
    <2>3. CASE Finish(FALSE, "rejected", FALSE) /\ UNCHANGED update
          BY <1>2, <2>3, FinishIs, EndingIsProven
    <2>4. CASE /\ r.run.page \in Urls \ Abroad /\ update' = ToolUpdate(r.run)
               /\ Finish(FALSE, "budget_exhausted", TRUE)
      <3>1. at' = "done" /\ report'.stop = "budget_exhausted" /\ report'.missing = {}
            BY <2>4, FinishIs
      <3>2. update' # None => update' = "tool" /\ r.run.by # skill.tool
            BY <1>2, <2>4 DEF ToolUpdate
      <3>3. seed'.page \notin Abroad /\ seed'.page # None /\ DOMAIN visits' = {} /\ explored' = None
            BY <1>1, <1>2, <2>4, SiteIsKnown
      <3> QED BY <1>1, <1>2, <3>1, <3>2, <3>3, EndingIsProven
    <2>5. CASE at' = "rediscover"
          BY <2>5 DEF Ended
    <2> QED BY <1>1, <2>1, <2>2, <2>3, <2>4, <2>5
  <1> QED BY <1>6, <1>8, <1>9, <1>11, <1>12
          DEF SiteInv, Discovered, Reasons, Visiting, Explored

LEMMA RediscoverKeeps == ASSUME SiteInv, Rediscover PROVE SiteInv' /\ Ended'
  <1>1. /\ at = "rediscover" /\ others' = [others EXCEPT ![seed.page] = @ + 1]
        /\ UNCHANGED <<goal, seed, hits, visits, stops, fetches, base, charged, barred, cut, explored,
                       skill, known, pages, failed, update>>
        BY DEF Rediscover
  <1>2. PICK cost \in Costs \cup {0} :
          /\ left' = left - cost
          /\ \/ at' = "recover" /\ UNCHANGED <<search, named, found, report>>
             \/ Finish(FALSE, "cancelled", FALSE) /\ UNCHANGED <<search, named, found>>
             \/ \E how \in {"partial", "complete"}, urls \in Links :
                  /\ search' = [search EXCEPT ![skill.finder] = how]
                  /\ named' = urls \ ({seed.page} \cup IF goal THEN {} ELSE Abroad) /\ found' = named'
                  /\ at' = "revisit" /\ UNCHANGED report
        BY DEF Rediscover
  <1>3. /\ skill.finder \in Finders /\ seed.page \in Urls \ Abroad /\ DOMAIN visits = {} /\ stops = {}
        /\ found = {} /\ report = None /\ explored = None
    <2>1. skill \in Skills
          BY <1>1 DEF SiteInv, SiteTypes, Replaying
    <2> QED BY <1>1, <2>1 DEF SiteInv, SiteTypes, Untouched, Skills
  <1>4. at' \in {"recover", "done", "revisit"} /\ (report' # None => at' = "done")
        BY <1>2, <1>3, FinishIs
  <1>5. /\ left' \in Int /\ others' \in [Urls -> Nat] /\ others'[seed.page] > 0
        BY <1>1, <1>2, <1>3, LimitsArePositive DEF SiteInv, SiteTypes
  <1>6. named' \subseteq Urls /\ found' \subseteq Urls
        BY <1>2, <1>3, SiteIsKnown DEF SiteInv, SiteTypes
  <1>7. search' \in [Finders -> {"absent", "todo", "passed", "blocked", "failed", "cancelled", "partial", "complete"}]
        BY <1>2, <1>3 DEF SiteInv, SiteTypes
  <1>8. SiteTypes'
        BY <1>1, <1>3, <1>4, <1>5, <1>6, <1>7 DEF SiteInv, SiteTypes, Places, WellRun, Replaying
  <1>9. Recovered'
        BY <1>1, <1>4, <1>5 DEF SiteInv, Recovered, Recovering, Replaying, Exploring
  <1>10. (at' = "recover" => found' = {}) /\ (at' = "revisit" => found' = named')
        BY <1>2, <1>3, FinishIs
  <1>11. Untouched' /\ Replayed'
        BY <1>1, <1>3, <1>4, <1>10 DEF SiteInv, Untouched, Replayed
  <1>12. Ended'
    <2>1. CASE Finish(FALSE, "cancelled", FALSE)
      <3>1. at' = "done" /\ report'.stop \in {"cancelled", "budget_exhausted"} /\ report'.missing = {}
            BY <2>1, FinishIs
      <3>2. update # None => update = "tool" /\ seed.page # None /\ seed.by # skill.tool
            BY <1>1, <1>3 DEF SiteInv, Replayed
      <3>3. explored' = None /\ seed.page \notin Abroad
            BY <1>1, <1>3
      <3> QED BY <1>1, <1>3, <3>1, <3>2, <3>3, EndingIsProven
    <2>2. CASE at' \in {"recover", "revisit"}
          BY <2>2 DEF Ended
    <2> QED BY <1>2, <2>1, <2>2
  <1> QED BY <1>4, <1>8, <1>9, <1>11, <1>12
          DEF SiteInv, Discovered, Reasons, Visiting, Explored

LEMMA RevisitKeeps == ASSUME SiteInv, NEW u \in Urls, Revisit(u) PROVE SiteInv' /\ Ended'
  <1>1. /\ at = "revisit" /\ u \in Unvisited
        /\ UNCHANGED <<goal, seed, search, hits, found, stops, explored, skill, known, named>>
        BY DEF Revisit
  <1>2. /\ u \in found /\ u \notin DOMAIN visits /\ found = named /\ stops = {} /\ seed.page \in Urls \ Abroad
        /\ explored = None /\ report = None /\ ~Recovering /\ charged = 0
        /\ seed.page \in pages /\ update \in {None, "tool"}
        /\ update = "tool" => \E r \in {visits[v] : v \in DOMAIN visits} \cup {seed} :
                                 r.page # None /\ r.by # skill.tool
        BY <1>1 DEF Unvisited, SiteInv, SiteTypes, Untouched, Replayed, Recovered, Replaying
  <1>3. \A v \in DOMAIN visits :
          /\ visits[v].tried /\ visits[v].page \notin Abroad /\ WellRun(visits[v])
          /\ visits[v].page # None => visits[v].page \in pages
          /\ visits[v].page = None => visits[v].code = "technical" /\ v \in failed
          /\ visits[v].code # "refused"
    <2> SUFFICES ASSUME NEW v \in DOMAIN visits
                 PROVE  /\ visits[v].tried /\ visits[v].page \notin Abroad /\ WellRun(visits[v])
                        /\ visits[v].page # None => visits[v].page \in pages
                        /\ visits[v].page = None => visits[v].code = "technical" /\ v \in failed
                        /\ visits[v].code # "refused"
        OBVIOUS
    <2>1. /\ visits[v].tried /\ visits[v].page \notin Abroad /\ WellRun(visits[v])
          /\ visits[v].page # None => visits[v].page \in pages
          /\ visits[v].page = None => visits[v].code = "technical" /\ v \in failed
          BY <1>1 DEF SiteInv, SiteTypes, Replayed
    <2> QED BY <2>1 DEF WellRun
  <1>4. seed.page # None /\ None \notin Abroad
        BY <1>2, SiteIsKnown
  \* Nothing was called: the candidate is of another host, or there is nothing left for it.
  <1>5. ASSUME UNCHANGED <<visits, ledger, pages, failed>>, NEW stop, NEW spent \in BOOLEAN,
               Finish(FALSE, stop, spent), update' = None \/ (update' = update /\ spent)
        PROVE  SiteInv' /\ Ended'
    <2>1. /\ at' = "done" /\ report'.missing = {} /\ (spent => report'.stop = "budget_exhausted")
          BY <1>5, FinishIs
    <2>2. SiteTypes'
          BY <1>1, <1>5, <2>1 DEF SiteInv, SiteTypes, Places, WellRun, Replaying, ledger
    <2>3. Recovered'
          BY <1>1, <1>5, <2>1 DEF SiteInv, Recovered, Recovering, Replaying, Exploring, ledger
    <2>4. update' # None => /\ update' = "tool" /\ report'.stop # "rejected"
                            /\ \E r \in {visits[v] : v \in DOMAIN visits} \cup {seed} :
                                  r.page # None /\ r.by # skill.tool
          BY <1>2, <1>5, <2>1
    <2>5. Ended'
          BY <1>1, <1>2, <1>3, <1>5, <2>1, <2>4, EndingIsProven
    <2> QED BY <2>1, <2>2, <2>3, <2>5
            DEF SiteInv, Untouched, Discovered, Reasons, Visiting, Replayed, Explored
  <1>6. ASSUME NEW r \in Runs(u, skill.tool), Charge(u, r), Select(u, r.run), Visited(u, r)
        PROVE  SiteInv' /\ Ended'
    <2>1. KnownRun(u, r)
          BY RunsAreKnown DEF SiteInv
    <2>2. /\ left' \in Int /\ fetches' \in [Urls -> Nat] /\ others' \in [Urls -> Nat] /\ base' = base
          /\ charged' \in Nat /\ barred' \in BOOLEAN /\ cut' \in BOOLEAN
          /\ \A v \in Urls : fetches'[v] <= Tries
          /\ Recovering' = Recovering
          /\ charged' = charged + (IF Recovering /\ u = Seed THEN r.calls + r.turns ELSE 0)
          BY <1>6, <2>1, ChargeIsKnown DEF SiteInv, Recovered
    <2>3. ~Recovering' /\ charged' = 0
          BY <1>2, <2>2
    <2>4. /\ DOMAIN visits' = DOMAIN visits \cup {u} /\ visits'[u] = r.run
          /\ \A v \in DOMAIN visits : visits'[v] = visits[v]
          BY <1>2, <1>6, SelectIs
    <2>5. \/ r.run.code = "halted" /\ Raise
          \/ /\ r.run.page = None /\ r.run.code # "halted"
             /\ failed' = failed \cup {v \in {u} : r.run.tried} /\ UNCHANGED pages
             /\ update' = IF TerminalStop(r.run) = "rejected" THEN None ELSE update
             /\ IF r.run.code = "technical" THEN UNCHANGED <<at, report>>
                ELSE Finish(FALSE, TerminalStop(r.run), FALSE)
          \/ /\ r.run.page \in Abroad
             /\ update' = None /\ UNCHANGED <<pages, failed>> /\ Finish(FALSE, "rejected", FALSE)
          \/ /\ r.run.page \in Urls \ Abroad
             /\ pages' = pages \cup {r.run.page} /\ update' = ToolUpdate(r.run)
             /\ UNCHANGED <<at, failed, report>>
          BY <1>6 DEF Visited
    <2>6. at' \in {"raised", "done", "revisit"} /\ (report' # None => at' = "done")
          BY <1>1, <1>2, <2>5, FinishIs DEF Raise
    <2>7. pages' \subseteq Urls /\ failed' \subseteq Urls
          BY <1>2, <2>5, SiteIsKnown DEF Raise, SiteInv, SiteTypes
    <2>8. \A v \in DOMAIN visits' : WellRun(visits'[v])
          BY <1>3, <2>1, <2>4 DEF KnownRun
    <2>9. SiteTypes'
      <3>1. (\A v \in DOMAIN visits : WellRun(visits[v]))' /\ WellRun(seed)'
            BY <1>1, <2>8 DEF SiteInv, SiteTypes, WellRun
      <3> QED BY <1>1, <1>2, <2>2, <2>4, <2>6, <2>7, <3>1 DEF SiteInv, SiteTypes, Places, Replaying
    <2>10. Recovered'
          BY <2>2, <2>3, <2>6 DEF Recovered, Replaying, Exploring
    <2>11. Untouched'
          BY <1>1, <1>2, <2>6 DEF Untouched
    <2>12. pages \subseteq pages' /\ failed \subseteq failed'
          BY <2>5 DEF Raise
    \* The update still has its witness.
    <2>13. update' = "tool" /\ at' # "raised" =>
             \E run \in {visits'[v] : v \in DOMAIN visits'} \cup {seed} : run.page # None /\ run.by # skill.tool
      <3>1. ASSUME update' = "tool", update = "tool"
            PROVE  \E run \in {visits'[v] : v \in DOMAIN visits'} \cup {seed} :
                      run.page # None /\ run.by # skill.tool
            BY <1>2, <2>4, <3>1
      <3>2. ASSUME update' = "tool", update # "tool", at' # "raised"
            PROVE  visits'[u].page # None /\ visits'[u].by # skill.tool
            BY <1>2, <2>4, <2>5, <3>2, SiteIsKnown DEF ToolUpdate, Raise
      <3> QED BY <2>4, <3>1, <3>2
    <2>14. update' \in {None, "tool"}
          BY <1>2, <2>5 DEF ToolUpdate, Raise
    <2>15. ASSUME at' = "revisit"
           PROVE  /\ r.run.tried /\ r.run.page \notin Abroad
                  /\ r.run.page # None => r.run.page \in pages'
                  /\ r.run.page = None => r.run.code = "technical" /\ u \in failed'
      <3>1. \/ /\ r.run.page = None /\ r.run.code = "technical" /\ failed' = failed \cup {v \in {u} : r.run.tried}
            \/ r.run.page \in Urls \ Abroad /\ pages' = pages \cup {r.run.page}
            BY <2>5, <2>15 DEF Raise, Finish
      <3>2. r.run.page # None => r.run.tried
            BY <2>1 DEF KnownRun, WellRun
      <3>3. r.run.code = "technical" => r.run.tried
            BY <2>1 DEF KnownRun
      <3>4. CASE r.run.page = None
            BY <1>4, <3>1, <3>3, <3>4, SiteIsKnown
      <3>5. CASE r.run.page # None
            BY <1>4, <3>1, <3>2, <3>5
      <3> QED BY <3>4, <3>5
    <2>16. Replayed'
      <3>1. ASSUME at' = "revisit", NEW v \in DOMAIN visits'
            PROVE  /\ visits'[v].tried /\ visits'[v].page \notin Abroad
                   /\ visits'[v].page # None => visits'[v].page \in pages'
                   /\ visits'[v].page = None => visits'[v].code = "technical" /\ v \in failed'
        <4>1. CASE v = u
              BY <2>4, <2>15, <3>1, <4>1
        <4>2. CASE v \in DOMAIN visits
              BY <1>3, <2>4, <2>12, <3>1, <4>2
        <4> QED BY <2>4, <3>1, <4>1, <4>2
      <3> QED BY <1>1, <1>2, <2>6, <2>12, <2>13, <2>14, <3>1 DEF Replayed
    <2>17. Ended'
      <3>1. CASE r.run.code = "halted" /\ Raise
        <4>1. visits'[u].code \in Stopped /\ explored' = None /\ report' = None
              BY <1>1, <1>2, <2>4, <3>1 DEF Stopped, Raise
        <4> QED BY <2>4, <4>1 DEF Ended, MissingIsProven, SkillsAreProven, RaisesOnlyWhenCancelled
      <3>2. CASE /\ r.run.page = None /\ Finish(FALSE, TerminalStop(r.run), FALSE)
                 /\ update' = IF TerminalStop(r.run) = "rejected" THEN None ELSE update
        <4>1. /\ at' = "done" /\ report'.stop \in {TerminalStop(r.run), "budget_exhausted"} /\ report'.missing = {}
              BY <3>2, FinishIs
        <4>2. update' # None => report'.stop # "rejected" /\ r.run.code # "refused"
              BY <3>2, <4>1 DEF TerminalStop, Stopped, OutOfBudget
        <4>3. \A v \in DOMAIN visits' : visits'[v].page \notin Abroad /\
                (update' # None => visits'[v].code # "refused")
              BY <1>3, <1>4, <2>4, <3>2, <4>2
        <4> QED BY <1>1, <1>2, <2>13, <2>14, <4>1, <4>2, <4>3, EndingIsProven
      <3>3. CASE update' = None /\ Finish(FALSE, "rejected", FALSE)
            BY <1>1, <1>2, <3>3, FinishIs, EndingIsProven
      <3>4. CASE UNCHANGED at
            BY <1>1, <3>4 DEF Ended
      <3> QED BY <2>5, <3>1, <3>2, <3>3, <3>4
    <2> QED BY <2>6, <2>9, <2>10, <2>11, <2>16, <2>17 DEF SiteInv, Discovered, Reasons, Visiting, Explored
  <1>7. \/ /\ update' = None /\ UNCHANGED <<visits, ledger, pages, failed>> /\ Finish(FALSE, "rejected", FALSE)
        \/ /\ UNCHANGED <<visits, ledger, pages, failed, update>> /\ Finish(FALSE, "budget_exhausted", TRUE)
        \/ \E r \in Runs(u, skill.tool) : Charge(u, r) /\ Select(u, r.run) /\ Visited(u, r)
        BY DEF Revisit
  <1> QED BY <1>5, <1>6, <1>7

LEMMA FinishReplayKeeps == ASSUME SiteInv, FinishReplay PROVE SiteInv' /\ Ended'
  <1>1. /\ at = "revisit" /\ Unvisited = {}
        /\ UNCHANGED <<goal, seed, search, hits, found, visits, stops, ledger, explored, skill, known,
                       pages, failed, named, update>>
        BY DEF FinishReplay
  <1>2. \/ search[skill.finder] = "complete" /\ Finish(TRUE, "source_exhausted", FALSE)
        \/ Finish(FALSE, "discovery_failed", FALSE)
        BY DEF FinishReplay
  <1>3. /\ at' = "done" /\ report'.stop \in {"source_exhausted", "discovery_failed", "budget_exhausted"}
        /\ report'.missing # {} =>
             /\ search[skill.finder] = "complete" /\ ~(left' < 0)
             /\ report'.missing = known \ (pages' \cup failed')
        BY <1>2, FinishIs
  <1>4. SiteTypes'
        BY <1>1, <1>3 DEF SiteInv, SiteTypes, Places, WellRun, Replaying, ledger
  <1>5. Recovered'
        BY <1>1, <1>3 DEF SiteInv, Recovered, Recovering, Replaying, Exploring, ledger
  <1>6. /\ found = named /\ seed.page \in Urls \ Abroad /\ seed.page \in pages /\ update \in {None, "tool"}
        /\ explored = None /\ None \notin Abroad /\ update # "recipe" /\ left \in Int
        /\ update = "tool" => \E r \in {visits[v] : v \in DOMAIN visits} \cup {seed} :
                                 r.page # None /\ r.by # skill.tool
        BY <1>1, SiteIsKnown DEF SiteInv, SiteTypes, Untouched, Replayed
  <1>7. \A v \in DOMAIN visits :
          /\ visits[v].tried /\ visits[v].page \notin Abroad
          /\ visits[v].page # None => visits[v].page \in pages /\ visits[v].code # "refused"
          /\ visits[v].page = None => visits[v].code = "technical" /\ v \in failed
        BY <1>1 DEF SiteInv, SiteTypes, Replayed, WellRun
  <1>8. MissingIsProven'
    <2> SUFFICES ASSUME report' # None, report'.missing # {} PROVE MissingIsProven'
        BY DEF MissingIsProven
    <2>1. /\ search[skill.finder] = "complete" /\ left >= 0
          /\ report'.missing = known \ (pages \cup failed)
          BY <1>1, <1>3, <1>6 DEF ledger
    <2>2. First = skill.source /\ First' = First
          BY <1>1, <1>6 DEF First
    <2>3. named \subseteq {First} \cup DOMAIN visits \/ (goal /\ FileFound)
          BY <1>1, <1>6 DEF Unvisited
    <2>4. seed.page # None /\ seed.tried
          BY <1>6, SiteIsKnown DEF SiteInv, SiteTypes, WellRun
    <2>5. ASSUME NEW u PROVE RunsOf(u)' = RunsOf(u)
          BY <1>1, <2>2 DEF RunsOf
    <2>6. ASSUME NEW u, NEW run \in RunsOf(u)
          PROVE  /\ run.tried /\ (run.page = None => run.code = "technical" /\ u \in failed)
                 /\ run.page # None => run.page \in pages
          BY <1>6, <1>7, <2>2, <2>4 DEF RunsOf
    <2>7. FileFound' = FileFound
          BY <1>1 DEF FileFound, Stored
    <2>8. \A u \in named : RunsOf(u) # {} => \E run \in RunsOf(u) : run.tried
          BY <2>6
    <2>9. \A u \in named : \A run \in RunsOf(u) : run.tried /\ run.page = None => run.code = "technical"
          BY <2>6
    <2>10. \A u \in named \cap report'.missing : \A run \in RunsOf(u) : run.tried => run.page \notin {None, u}
          BY <2>1, <2>6
    <2> QED BY <1>1, <1>6, <2>1, <2>2, <2>3, <2>5, <2>7, <2>8, <2>9, <2>10 DEF MissingIsProven, ledger
  <1>9. SkillsAreProven'
        BY <1>1, <1>3, <1>6, <1>7 DEF SkillsAreProven
  <1> QED BY <1>3, <1>4, <1>5, <1>8, <1>9
          DEF SiteInv, Ended, Untouched, Discovered, Reasons, Visiting, Replayed, Explored, RaisesOnlyWhenCancelled

-----------------------------------------------------------------------------
(* Recovery *)

LEMMA RecoverKeeps == ASSUME SiteInv, Recover PROVE SiteInv' /\ Ended'
  <1>1. /\ at = "recover" /\ update' = None
        /\ UNCHANGED <<goal, seed, search, hits, found, visits, stops, left, fetches, others, charged, barred,
                       cut, explored, skill, known, pages, failed, named>>
        /\ \/ MayCall(Seed) /\ base' = [u \in Urls |-> Tried(u)] /\ at' = "seed" /\ UNCHANGED report
           \/ Finish(FALSE, "budget_exhausted", TRUE) /\ UNCHANGED base
        BY DEF Recover
  <1>2. /\ found = {} /\ DOMAIN visits = {} /\ stops = {} /\ explored = None /\ report = None
        /\ ~Recovering /\ charged = 0 /\ seed.page \in Urls /\ others[seed.page] > 0
        BY <1>1 DEF SiteInv, SiteTypes, Untouched, Recovered, Replaying
  <1>3. at' \in {"seed", "done"} /\ (report' # None => at' = "done")
        BY <1>1, <1>2, FinishIs
  <1>4. base' \in [Urls -> Nat]
    <2>1. \A u \in Urls : Tried(u) \in Nat
          BY DEF Tried, SiteInv, SiteTypes
    <2> QED BY <1>1, <2>1 DEF SiteInv, SiteTypes
  <1>5. SiteTypes'
        BY <1>1, <1>2, <1>3, <1>4 DEF SiteInv, SiteTypes, Places, WellRun, Replaying
  <1>6. Recovered'
    <2>1. CASE MayCall(Seed) /\ base' = [u \in Urls |-> Tried(u)] /\ at' = "seed"
      <3>1. Recovering'
        <4>1. fetches[seed.page] \in Nat /\ others[seed.page] \in Nat
              BY <1>2 DEF SiteInv, SiteTypes
        <4>2. base'[seed.page] > 0
              BY <1>2, <2>1, <4>1 DEF Tried
        <4> QED BY <1>2, <4>2 DEF Recovering
      <3>2. base'[Seed] = Tried(Seed) /\ Tried(Seed)' = Tried(Seed) /\ Tried(Seed) < Tries
            BY <1>1, <2>1, SiteIsKnown DEF MayCall, Tried
      <3>3. Tried(Seed) <= Tries
        <4>1. Tried(Seed) \in Nat /\ Tries \in Nat
              BY SiteIsKnown, LimitsArePositive DEF Tried, SiteInv, SiteTypes
        <4> QED BY <3>2, <4>1
      <3> QED BY <1>1, <1>2, <2>1, <3>1, <3>2, <3>3 DEF SiteInv, Recovered, Replaying, Exploring
    <2>2. CASE Finish(FALSE, "budget_exhausted", TRUE) /\ UNCHANGED base
      <3>1. at' = "done" /\ ~Recovering'
            BY <1>2, <2>2 DEF Finish, Recovering
      <3> QED BY <1>1, <3>1 DEF SiteInv, Recovered, Replaying, Exploring
    <2> QED BY <1>1, <2>1, <2>2
  <1>7. Untouched' /\ Replayed'
        BY <1>1, <1>2, <1>3 DEF Untouched, Replayed
  <1>8. Ended'
    <2>1. CASE at' = "seed"
          BY <2>1 DEF Ended
    <2>2. CASE Finish(FALSE, "budget_exhausted", TRUE)
          BY <1>1, <1>2, <2>2, FinishIs, EndingIsProven
    <2> QED BY <1>1, <2>1, <2>2
  <1> QED BY <1>3, <1>5, <1>6, <1>7, <1>8 DEF SiteInv, Discovered, Reasons, Visiting, Explored

\* What a recipe that is adopted stands on.
Adopted == ~Mismatched /\ ~barred /\ explored.recipe # None /\ ~cut /\ left >= 0

LEMMA AdoptedIsFounded ==
  ASSUME SiteInv, at = "explored", Refreshing, Adopted
  PROVE  /\ seed.page \in Urls \ Abroad /\ seed.tried /\ seed.code # "refused" /\ Site = "home"
         /\ explored.recipe \in Finders
         /\ \A u \in DOMAIN visits :
              /\ visits[u].page \notin Abroad /\ (visits[u].code = "refused" => ~visits[u].tried)
              /\ visits[u].tried /\ visits[u].page = None => visits[u].code = "technical"
              /\ visits[u].page # None => u \in Good
  <1>1. /\ seed.page # None /\ stops = {} /\ ~barred /\ explored.recipe \in Finders
        BY DEF Adopted, SiteInv, Explored
  <1>2. Site = "home" /\ \A u \in DOMAIN visits : u \notin Stored \ Good
        BY DEF Adopted, Mismatched
  <1>3. seed.page \in Urls \ Abroad /\ seed.tried /\ seed.code # "refused"
        BY <1>1, <1>2 DEF SiteInv, SiteTypes, WellRun, Site, Host
  <1>4. ASSUME NEW u \in DOMAIN visits
        PROVE  /\ visits[u].page \notin Abroad /\ (visits[u].code = "refused" => ~visits[u].tried)
               /\ visits[u].tried /\ visits[u].page = None => visits[u].code = "technical"
               /\ visits[u].page # None => u \in Good
    <2>1. WellRun(visits[u])
          BY DEF SiteInv, SiteTypes
    <2>2. visits[u].tried /\ visits[u].page = None => visits[u].code # "refused"
          BY <1>1 DEF SiteInv, Recovered, Exploring
    <2>3. visits[u].page = None => visits[u].code \notin Stopped
          BY <1>1 DEF SiteInv, Reasons
    <2>4. visits[u].code \notin {"shared", "tries"}
          BY <1>1 DEF SiteInv, Reasons
    <2>5. visits[u].page # None => u \in Good
          BY <1>2 DEF Stored
    <2>6. visits[u].page # None => visits[u].page \notin Abroad
          BY <1>2, <2>5 DEF Good, Host
    <2>7. None \notin Abroad
          BY SiteIsKnown
    <2> QED BY <2>1, <2>2, <2>3, <2>4, <2>5, <2>6, <2>7 DEF WellRun, Failing
  <1> QED BY <1>1, <1>2, <1>3, <1>4

LEMMA EndRecoveryKeeps == ASSUME SiteInv, EndRecovery PROVE SiteInv' /\ Ended'
  <1> DEFINE spent == cut \/ explored.stop = "budget_exhausted"
  <1>1. /\ at = "explored" /\ Refreshing /\ failed' = ExploredFailures
        /\ pages' = IF Site = "home" THEN pages \cup ExploredPages ELSE pages
        /\ UNCHANGED <<goal, seed, search, hits, found, visits, stops, ledger, explored, skill, known>>
        BY DEF EndRecovery
  <1>2. \/ /\ Adopted /\ update' = "recipe" /\ named' = Expected(explored.recipe)
           /\ \/ Replayable(explored.recipe, pages') /\ Finish(TRUE, "source_exhausted", spent)
              \/ Finish(FALSE, "recovery_incomplete", spent)
        \/ ~Adopted /\ update' = None /\ named' = named /\ \E stop : Finish(FALSE, stop, spent)
        BY DEF EndRecovery, Adopted
  <1>3. spent \in BOOLEAN
        BY DEF SiteInv, SiteTypes
  <1> HIDE DEF spent
  <1>4. at' = "done"
        BY <1>2, <1>3, FinishIs
  <1>5. SiteTypes'
    <2>1. pages' \subseteq Urls /\ failed' \subseteq Urls
      <3>1. ExploredPages \subseteq Urls
            BY DEF ExploredPages, Good, Stored, SiteInv, SiteTypes, WellRun
      <3>2. ExploredFailures \subseteq Urls
            BY SiteIsKnown DEF ExploredFailures, SiteInv, SiteTypes
      <3> QED BY <1>1, <3>1, <3>2 DEF SiteInv, SiteTypes
    <2>2. named' \subseteq Urls
      <3>1. Adopted => explored.recipe \in Finders
            BY <1>1, AdoptedIsFounded
      <3> QED BY <1>2, <3>1 DEF Expected, SiteInv, SiteTypes
    <2> QED BY <1>1, <1>4, <2>1, <2>2 DEF SiteInv, SiteTypes, Places, WellRun, Replaying, ledger
  <1>6. Recovered'
        BY <1>1, <1>4 DEF SiteInv, Recovered, Recovering, SeedAlone, Tried, Replaying, Exploring, ledger
  \* The first part of SkillsAreProven is that of the exploration.
  <1>7. explored' # None /\ explored'.recipe # None =>
          /\ stops' = {} /\ ~barred' /\ Todo' = {}
          /\ SomeFailed' => goal' /\ search'[explored'.recipe] = "complete"
          /\ \E u \in hits'[explored'.recipe] \cap DOMAIN visits' :
               visits'[u].by = seed'.by /\ visits'[u].page # None /\ Host(visits'[u].page) = Host(seed'.page)
        BY <1>1 DEF SiteInv, Explored, Todo, SomeFailed, ledger
  <1>8. CASE ~Adopted
    <2>1. report'.missing = {}
          BY <1>2, <1>3, <1>8, FinishIs
    <2>2. update' = None
          BY <1>2, <1>8
    <2> QED BY <1>4, <1>5, <1>6, <1>7, <2>1, <2>2
            DEF SiteInv, Ended, Untouched, Discovered, Reasons, Visiting, Replayed, Explored,
                MissingIsProven, SkillsAreProven, RaisesOnlyWhenCancelled, Host
  <1>9. CASE Adopted
    <2>1. /\ seed.page \in Urls \ Abroad /\ seed.tried /\ seed.code # "refused" /\ Site = "home"
          /\ explored.recipe \in Finders
          /\ \A u \in DOMAIN visits :
               /\ visits[u].page \notin Abroad /\ (visits[u].code = "refused" => ~visits[u].tried)
               /\ visits[u].tried /\ visits[u].page = None => visits[u].code = "technical"
               /\ visits[u].page # None => u \in Good
          BY <1>1, <1>9, AdoptedIsFounded
    <2>2. /\ update' = "recipe" /\ named' = Expected(explored.recipe) /\ "recipe" # None
          /\ report'.stop \in {"source_exhausted", "recovery_incomplete", "budget_exhausted"}
          /\ report'.missing # {} =>
               /\ Replayable(explored.recipe, pages') /\ report'.missing = known \ (pages' \cup failed')
      <3>1. update' = "recipe" /\ named' = Expected(explored.recipe) /\ "recipe" # None
            BY <1>2, <1>9, SiteIsKnown
      <3>2. CASE Replayable(explored.recipe, pages') /\ Finish(TRUE, "source_exhausted", spent)
        <4>1. /\ report'.stop \in {"source_exhausted", "budget_exhausted"}
              /\ report'.missing # {} => report'.missing = known \ (pages' \cup failed')
              BY <1>3, <3>2, FinishIs
        <4> QED BY <3>1, <3>2, <4>1
      <3>3. CASE Finish(FALSE, "recovery_incomplete", spent)
        <4>1. report'.stop \in {"recovery_incomplete", "budget_exhausted"} /\ report'.missing = {}
              BY <1>3, <3>3, FinishIs
        <4> QED BY <3>1, <4>1
      <3> QED BY <1>2, <1>9, <3>2, <3>3
    <2>3. explored.recipe # None /\ left >= 0 /\ left' = left
          BY <1>1, <1>9 DEF Adopted, ledger
    <2>4. SkillsAreProven'
      <3>1. /\ report'.stop # "rejected" /\ seed'.page \notin Abroad
            /\ \A u \in DOMAIN visits' :
                 visits'[u].page \notin Abroad /\ (visits'[u].code = "refused" => ~visits'[u].tried)
            /\ explored'.recipe # None /\ left' >= 0
            BY <1>1, <2>1, <2>2, <2>3
      <3> QED BY <1>7, <2>2, <3>1 DEF SkillsAreProven, Host
    <2>5. MissingIsProven'
      <3> SUFFICES ASSUME report'.missing # {} PROVE MissingIsProven'
          BY DEF MissingIsProven
      <3>1. /\ search[explored.recipe] = "complete"
            /\ named' \subseteq {Seed} \cup {u \in DOMAIN visits : visits[u].tried}
            /\ report'.missing = known \ (pages' \cup failed')
            BY <2>2 DEF Replayable
      <3>2. First' = Seed
            BY <2>2 DEF First
      <3>3. ASSUME NEW u
            PROVE  RunsOf(u)' = {visits[v] : v \in {u} \cap DOMAIN visits} \cup {seed : v \in {u} \cap {Seed}}
            BY <1>1, <3>2 DEF RunsOf
      <3>4. seed.page # None
            BY <2>1, SiteIsKnown
      <3>5. \A u \in named' : \E run \in RunsOf(u)' : run.tried
            BY <2>1, <3>1, <3>3
      <3>6. \A u \in named' : \A run \in RunsOf(u)' : run.tried /\ run.page = None => run.code = "technical"
            BY <2>1, <3>3, <3>4
      <3>7. ASSUME NEW u \in named' \cap report'.missing, NEW run \in RunsOf(u)', run.tried
            PROVE  run.page \notin {None, u}
        <4>1. u \notin pages' /\ u \notin failed' /\ ExploredPages \subseteq pages'
              BY <1>1, <2>1, <3>1
        <4>2. CASE run = seed
              BY <3>4, <4>1, <4>2 DEF ExploredPages
        <4>3. CASE u \in DOMAIN visits /\ run = visits[u]
          <5>1. run.page # None
                BY <1>1, <3>7, <4>1, <4>3 DEF ExploredFailures
          <5>2. run.page \in ExploredPages
                BY <2>1, <4>3, <5>1 DEF ExploredPages
          <5> QED BY <4>1, <5>1, <5>2
        <4> QED BY <3>3, <3>7, <4>2, <4>3
      <3>8. search' = search /\ explored' = explored /\ left' >= 0
            BY <1>1, <2>3
      <3>9. named' \subseteq {First'} \cup DOMAIN visits'
            BY <1>1, <3>1, <3>2
      <3> QED BY <2>2, <3>1, <3>2, <3>5, <3>6, <3>7, <3>8, <3>9 DEF MissingIsProven
    <2> QED BY <1>4, <1>5, <1>6, <2>4, <2>5
            DEF SiteInv, Ended, Untouched, Discovered, Reasons, Visiting, Replayed, Explored,
                RaisesOnlyWhenCancelled
  <1> QED BY <1>8, <1>9

-----------------------------------------------------------------------------
(* The invariant and what follows from it *)

LEMMA EndedStays == ASSUME SiteInv, Ended, UNCHANGED vars PROVE SiteInv' /\ Ended'
  <1> USE DEF vars, exploreVars, refreshVars, ledger
  <1>1. SiteTypes'
        BY DEF SiteInv, SiteTypes, WellRun, Replaying
  <1>2. Recovered'
        BY DEF SiteInv, Recovered, Recovering, Refreshing, SeedAlone, Tried, Exploring, Replaying
  <1>3. Untouched' /\ Discovered' /\ Reasons' /\ Replayed'
        BY DEF SiteInv, Untouched, Discovered, Succeeded, Reasons, Replayed
  <1>4. Visiting'
        BY DEF SiteInv, Visiting, Enough, FileFound, Stored, Available, AwareSucceeded, Provenance, Succeeded
  <1>5. Explored'
        BY DEF SiteInv, Explored, Todo, SomeFailed, Host
  <1>6. Ended'
        BY DEF Ended, MissingIsProven, SkillsAreProven, RaisesOnlyWhenCancelled, First, RunsOf, FileFound, Stored,
               Todo, SomeFailed, Host, Succeeded, AwareSucceeded
  <1> QED BY <1>1, <1>2, <1>3, <1>4, <1>5, <1>6 DEF SiteInv

LEMMA SiteKeeps == ASSUME SiteInv, Ended, [Next]_vars PROVE SiteInv' /\ Ended'
  <1>1. CASE ExploreStep /\ UNCHANGED refreshVars
    <2>1. CASE Build
      <3>1. SiteInv'
            BY <1>1, <2>1, BuildKeeps
      <3>2. CASE at' = "raised"
        <4>1. RaisesOnlyWhenCancelled'
              BY <2>1, <3>2, BuildRaises
        <4> QED BY <3>1, <3>2, <4>1 DEF Ended, MissingIsProven, SkillsAreProven, SiteInv, SiteTypes
      <3>3. CASE at' # "raised"
            BY <2>1, <3>1, <3>3 DEF Ended, Build, Return
      <3> QED BY <3>1, <3>2, <3>3
    <2>2. CASE RunSeed
          BY <1>1, <2>2, SeedKeeps DEF Ended, RunSeed
    <2>3. CASE OfferTools
          BY <1>1, <2>3, OfferKeeps DEF Ended, OfferTools
    <2>4. CASE Discover
          BY <1>1, <2>4, DiscoverKeeps DEF Ended, Discover
    <2>5. CASE EndDiscovery
          BY <1>1, <2>5, EndDiscoveryKeeps DEF Ended, EndDiscovery
    <2>6. CASE \E u \in Urls : Visit(u)
          BY <1>1, <2>6, VisitKeeps DEF Ended, Visit, ToVisit
    <2>7. CASE EndVisits
          BY <1>1, <2>7, EndVisitsKeeps DEF Ended, EndVisits
    <2> QED BY <1>1, <2>1, <2>2, <2>3, <2>4, <2>5, <2>6, <2>7 DEF ExploreStep
  <1> QED BY <1>1, EndedStays, ReplaySourceKeeps, RediscoverKeeps, RevisitKeeps, FinishReplayKeeps, RecoverKeeps,
             EndRecoveryKeeps DEF Next

\* The invariant of every site run.
THEOREM SiteSafety == Spec => [](SiteInv /\ Ended)
  <1>1. Init => SiteInv /\ Ended
        BY SiteBegins DEF Init, Ended
  <1>2. SiteInv /\ Ended /\ [Next]_vars => (SiteInv /\ Ended)'
        BY SiteKeeps
  <1> QED BY <1>1, <1>2, PTL DEF Spec

\* Before its end a run has no report, and a result only with the recipe's proof; and the
\* attempts at the seed of a recovery are within its limit throughout.
LEMMA SiteIsProven ==
  ASSUME SiteInv, Ended
  PROVE  MissingIsProven /\ SkillsAreProven /\ AttemptsAreLimited /\ RaisesOnlyWhenCancelled
  <1>1. AttemptsAreLimited
    <2>1. \A u \in Urls : fetches[u] <= Tries
          BY DEF SiteInv, Recovered
    <2>2. ASSUME Recovering, seed.page = Seed, \A u \in DOMAIN visits : visits[u].page # Seed
          PROVE  Tried(Seed) <= Tries
          BY <2>2 DEF SiteInv, Recovered, SeedAlone
    <2> QED BY <2>1, <2>2 DEF AttemptsAreLimited
  <1>2. CASE at \in {"done", "raised"}
        BY <1>1, <1>2 DEF Ended
  <1>3. CASE at \notin {"done", "raised"}
    <2>1. report = None /\ (explored # None => at = "explored")
          BY <1>3 DEF SiteInv, SiteTypes
    <2>2. SkillsAreProven
          BY <2>1 DEF SkillsAreProven, SiteInv, Explored
    <2> QED BY <1>1, <1>3, <2>1, <2>2 DEF MissingIsProven, RaisesOnlyWhenCancelled
  <1> QED BY <1>2, <1>3

\* A page is only called missing by a refresh that had a complete discovery and saw all of
\* its pages (site_refresh.py, _result_from_state and _recover).
THEOREM AbsencesHold == Spec => []MissingIsProven
  <1>1. SiteInv /\ Ended => MissingIsProven
        BY SiteIsProven
  <1> QED BY <1>1, SiteSafety, PTL

\* A recipe, or another tool, is only proposed on what this run has shown.
THEOREM SkillsHold == Spec => []SkillsAreProven
  <1>1. SiteInv /\ Ended => SkillsAreProven
        BY SiteIsProven
  <1> QED BY <1>1, SiteSafety, PTL

\* A replay and the recovery after it share one allowance of attempts at each URL.
THEOREM AttemptsHold == Spec => []AttemptsAreLimited
  <1>1. SiteInv /\ Ended => AttemptsAreLimited
        BY SiteIsProven
  <1> QED BY <1>1, SiteSafety, PTL

\* The checks a result makes on itself refuse no run but those excepted.
THEOREM RaisesHold == Spec => []RaisesOnlyWhenCancelled
  <1>1. SiteInv /\ Ended => RaisesOnlyWhenCancelled
        BY SiteIsProven
  <1> QED BY <1>1, SiteSafety, PTL

=============================================================================
