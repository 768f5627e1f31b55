--------------------------- MODULE UpdatesProofs ---------------------------
(***************************************************************************)
(* The update checker, the sources and the jobs around them, for any       *)
(* sources, pups, budgets and capacity of the event channel.               *)
(*                                                                         *)
(* Types: every variable has its type; among them that an answer, in the   *)
(* cache or in the file, only offers versions newer than its own.          *)
(* AdminInv: until edits of the list of sources overwrite each other, what *)
(* is relied on is in the list in memory and in the saved one, and an edit *)
(* that is about to shrink the list drops the source it removes and no     *)
(* other.  Only Edit and Crash change the lists (AdminsOwn).  With it      *)
(* AddedStaysSaved is inductive.                                           *)
(* NoMissedRefresh is inductive once the types hold: only EmitEvent takes  *)
(* a check from the place where it emits (EmitsStay), and then an event is *)
(* in the channel, its own or the one that left it no room.                *)
(***************************************************************************)
EXTENDS Updates, FiniteSetTheorems, WellFoundedInduction, TLAPS

Labels == {"idle", "next", "relist", "list", "clone", "unlisted", "write", "emit", "emitAll",
           "save", "source", "adopt", "place", "bump", "fetch", "finish", "validate",
           "append", "add", "unused", "remove", "shrink", "drop", "setAdded", "setDropped"}
Kinds == AllJobs \cup {"none", "check"}
Targets == Pups \cup {"none", "all"}
SourceNames == Sources \cup {"none"}
Numbers == Versions \cup {0}

(* The requests: what an installation asks for is in a source there is, and  *)
(* the other jobs are about a pup.                                           *)
Requests == {j \in [kind : Kinds, pup : Targets, src : SourceNames, to : Numbers] :
               /\ j.kind = "install" => j.src \in Sources
               /\ j.kind \in {"upgrade", "rollback", "purge"} => j.pup \in Pups}
Places == [at : Labels, then : Labels, src : SourceNames, got : SUBSET Versions,
           index : Nat, list : Seq(Sources), job : Requests]
Checks == [batch : BOOLEAN, todo : SUBSET Targets, pup : Targets, ver : Numbers]
Outcomes == [job : Requests, ok : BOOLEAN]
Lefts == [jobs : Nat, edits : Nat, trouble : Nat]
Offers == {e \in Entries : \A v \in e.avail : v > e.cur}
Pup == [version : Numbers, source : SourceNames]

ListTypes ==
  /\ published \in [Sources -> Nat] /\ \A s \in Sources : published[s] \in 0..Tops[s]
  /\ sources \in Seq(Sources) /\ saved \in Seq(Sources) /\ relied \subseteq Sources
  /\ crossed \in BOOLEAN
  /\ listing \in [Git -> {NoList} \cup SUBSET Versions]

PupTypes ==
  /\ pup \in [Pups -> Pup]
  /\ \A p \in Pups : pup[p] = NoPup \/ (pup[p].version \in Versions /\ pup[p].source \in Sources)
  /\ snapshot \in [Pups -> Numbers]

WorkTypes == work \in [Actors -> Places] /\ left \in Lefts /\ check \in [Checkers -> Checks]

JobTypes == inbox \in Seq(Requests) /\ jobq \in Seq(Requests) /\ outcome \in Outcomes

AnswerTypes ==
  /\ cache \in [Pups -> Offers] /\ disk \in [Pups -> Offers] /\ seen \in [Pups -> Offers]
  /\ events \in 0..MaxEvents /\ pending \in BOOLEAN /\ gaveUp \in BOOLEAN

Types == ListTypes /\ PupTypes /\ WorkTypes /\ JobTypes /\ AnswerTypes

(* A request that has come as far as these has a source.                     *)
Editing == {"validate", "append", "add", "save", "setAdded",
            "unused", "remove", "shrink", "drop", "setDropped"}
AdminInv ==
  /\ crossed \/ relied \subseteq Range(sources) \cap Range(saved)
  /\ \A a \in Admins :
       /\ work[a].at \in Editing => work[a].src \in Sources
       /\ work[a].at = "shrink" =>
            crossed \/ Range(work[a].list) \ {work[a].src} \subseteq Range(Front(work[a].list))

-----------------------------------------------------------------------------
(* A function into the naturals has a greatest value on a finite set: of the *)
(* subsets of it without one, none would be the smallest.                    *)
LEMMA MaxOf ==
  ASSUME NEW S, IsFiniteSet(S), S # {}, NEW f \in [S -> Nat]
  PROVE  \E m \in S : \A x \in S : f[x] <= f[m]
<1> DEFINE HasMax(T) == \E m \in T : \A x \in T : f[x] <= f[m]
           Bad == {T \in SUBSET S : T # {} /\ ~HasMax(T)}
           R == StrictSubsetOrdering(S)
<1>1. IsWellFoundedOn(R, SUBSET S)
  BY FS_StrictSubsetOrderingWellFounded, FS_FiniteSubsetsOfFinite
<1>2. \A T, U \in SUBSET S : T \subseteq U /\ T # U => <<T, U>> \in R
  BY DEF StrictSubsetOrdering
<1>3. Bad = {}
  <2> SUFFICES ASSUME Bad # {} PROVE FALSE
    OBVIOUS
  <2>1. PICK T \in Bad : \A U \in Bad : ~(<<U, T>> \in R)
    <3>1. Bad \subseteq SUBSET S
      OBVIOUS
    <3> HIDE DEF Bad, R
    <3> QED BY <1>1, <3>1, WFMin
  <2>2. PICK x \in T : TRUE
    OBVIOUS
  <2>3. CASE T = {x}
    <3>1. HasMax(T)
      BY <2>3
    <3> QED BY <3>1
  <2>4. CASE T # {x}
    <3>1. T \ {x} \notin Bad
      <4>1. T \ {x} \in SUBSET S /\ T \ {x} # T
        OBVIOUS
      <4> QED BY <4>1, <2>1, <1>2
    <3>2. HasMax(T \ {x})
      BY <3>1, <2>4
    <3>3. PICK m \in T \ {x} : \A y \in T \ {x} : f[y] <= f[m]
      BY <3>2
    <3>4. \A y \in T : f[y] \in Nat
      OBVIOUS
    <3>5. CASE f[x] <= f[m]
      <4>1. HasMax(T)
        BY <3>3, <3>5
      <4> QED BY <4>1
    <3>6. CASE ~(f[x] <= f[m])
      <4>1. HasMax(T)
        BY <3>3, <3>4, <3>6
      <4> QED BY <4>1
    <3> QED BY <3>5, <3>6
  <2> QED BY <2>3, <2>4
<1>4. S \notin Bad
  BY <1>3
<1> QED BY <1>4

(* The versions a source will ever have are versions, and versions are       *)
(* positive numbers.                                                         *)
LEMMA VersionsOfSource ==
  ASSUME NEW s \in Sources
  PROVE  /\ Tops[s] \in Nat \ {0} /\ 1..Tops[s] \subseteq Versions
         /\ Versions \subseteq Nat \ {0}
<1> DEFINE top == CHOOSE n \in {Tops[t] : t \in Sources} : \A t \in Sources : Tops[t] <= n
<1>1. Tops \in [Sources -> Nat] /\ Tops[s] \in Nat \ {0} /\ IsFiniteSet(Sources)
  BY SourcesAssumption
<1>2. \E m \in Sources : \A t \in Sources : Tops[t] <= Tops[m]
  BY <1>1, MaxOf
<1>3. top \in {Tops[t] : t \in Sources} /\ \A t \in Sources : Tops[t] <= top
  BY <1>2
<1>4. top \in Nat /\ Tops[s] <= top
  BY <1>3, SourcesAssumption
<1>5. Versions = 1..top
  BY DEF Versions
<1>6. \A v \in 1..Tops[s] : v \in 1..top
  BY <1>1, <1>4
<1>7. 1..top \subseteq Nat \ {0}
  BY <1>4
<1> HIDE DEF top
<1> QED BY <1>1, <1>5, <1>6, <1>7

(* The blank records have their types, and the goroutines named in the       *)
(* actions are among the actors.                                             *)
LEMMA Blanks ==
  /\ NoEntry \in Offers /\ NoCheck \in Checks /\ NoOutcome \in Outcomes /\ NoJob \in Requests
  /\ Idle \in Places /\ Checkers \subseteq Actors
  /\ {"store", "updater", "loop", "clear"} \cup Admins \subseteq Actors
<1>1. NoEntry \in Offers
  BY DEF NoEntry, Offers, Entries
<1>2. NoCheck \in Checks
  BY DEF NoCheck, Checks, Numbers, Targets
<1>3. NoJob \in Requests
  BY DEF NoJob, Requests, Kinds, Targets, SourceNames, Numbers
<1>4. NoOutcome \in Outcomes
  BY <1>3 DEF NoOutcome, Outcomes
<1>5. Idle \in Places
  BY <1>3 DEF Idle, Places, Labels, SourceNames
<1>6. Checkers \subseteq Actors /\ {"store", "updater", "loop", "clear"} \cup Admins \subseteq Actors
  BY SourcesAssumption, UpdatesAssumption DEF Checkers
<1> QED BY <1>1, <1>2, <1>3, <1>4, <1>5, <1>6

(* SetToSeq lists the sources the process starts with.                       *)
LEMMA ListOf ==
  SetToSeq(Sources) \in Seq(Sources)
<1>1. Cardinality(Sources) \in Nat /\ ExistsBijection(1..Cardinality(Sources), Sources)
  BY FS_CardinalityType, SourcesAssumption
<1>2. \E f \in [1..Cardinality(Sources) -> Sources] : IsInjective(f)
  BY <1>1 DEF ExistsBijection, Bijection, Injection, IsInjective
<1>3. SetToSeq(Sources) \in [1..Cardinality(Sources) -> Sources]
  BY <1>2 DEF SetToSeq
<1> QED BY <1>1, <1>3

(* The elements of a list of sources are sources.                            *)
LEMMA RangeTypes ==
  ASSUME NEW s \in Seq(Sources) PROVE Range(s) \subseteq Sources
BY DEF Range

(* The process starts with variables of their types.                         *)
LEMMA InitTypes == Init => Types
<1> SUFFICES ASSUME Init PROVE Types
  OBVIOUS
<1> USE Blanks DEF Init
<1>1. ListTypes
  <2>1. \A s \in Sources : published[s] \in 0..Tops[s]
    BY SourcesAssumption
  <2>2. published \in [Sources -> Nat]
    OBVIOUS
  <2>3. sources \in Seq(Sources) /\ saved \in Seq(Sources) /\ relied \subseteq Sources
    BY ListOf, RangeTypes
  <2> QED BY <2>1, <2>2, <2>3 DEF ListTypes
<1>2. PupTypes
  <2>1. pup \in [Pups -> {NoPup} \cup [version : {1}, source : Sources]]
    OBVIOUS
  <2>2. \A s \in Sources : 1 \in Versions
    <3> TAKE s \in Sources
    <3>1. Tops[s] \in Nat \ {0} /\ 1..Tops[s] \subseteq Versions
      BY VersionsOfSource
    <3>2. 1 \in 1..Tops[s]
      BY <3>1
    <3> QED BY <3>1, <3>2
  <2>3. \A p \in Pups : pup[p] = NoPup \/ (pup[p].version \in Versions /\ pup[p].source \in Sources)
    BY <2>1, <2>2
  <2>4. \A p \in Pups : pup[p] \in Pup
    BY <2>1, <2>2 DEF Pup, NoPup, Numbers, SourceNames
  <2>5. pup \in [Pups -> Pup]
    BY <2>1, <2>4
  <2>6. snapshot \in [Pups -> Numbers]
    BY DEF Numbers
  <2> QED BY <2>3, <2>5, <2>6 DEF PupTypes
<1>3. WorkTypes
  BY SourcesAssumption DEF WorkTypes, Lefts
<1>4. JobTypes
  BY DEF JobTypes
<1>5. AnswerTypes
  <2>1. cache \in [Pups -> Offers] /\ disk = cache /\ seen = cache
    BY DEF NoAnswers
  <2>2. events \in 0..MaxEvents
    BY UpdatesAssumption
  <2> QED BY <2>1, <2>2 DEF AnswerTypes
<1> QED BY <1>1, <1>2, <1>3, <1>4, <1>5 DEF Types

-----------------------------------------------------------------------------
(* A goroutine's place, and what it is given.                                *)
LEMMA Moves ==
  ASSUME WorkTypes, NEW a \in Actors
  PROVE  /\ \A l \in Labels : Goto(a, l) => work' \in [Actors -> Places]
         /\ Done(a) => work' \in [Actors -> Places]
         /\ \A got \in SUBSET Versions : Listed(a, got) => work' \in [Actors -> Places]
         /\ \A w \in Places : work' = [work EXCEPT ![a] = w] => work' \in [Actors -> Places]
<1>1. work \in [Actors -> Places] /\ work[a] \in Places
  BY DEF WorkTypes
<1>2. \A l \in Labels : [work[a] EXCEPT !.at = l] \in Places
  BY <1>1 DEF Places
<1>4. \A w \in Places : work' = [work EXCEPT ![a] = w] => work' \in [Actors -> Places]
  BY <1>1
<1>5. \A l \in Labels : Goto(a, l) => work' \in [Actors -> Places]
  BY <1>1, <1>2 DEF Goto
<1>6. Done(a) => work' \in [Actors -> Places]
  BY <1>4, Blanks DEF Done
<1>7. ASSUME NEW got \in SUBSET Versions, Listed(a, got)
      PROVE  work' \in [Actors -> Places]
  <2>1. work' = [work EXCEPT ![a] = [work[a] EXCEPT !.at = work[a].then, !.got = got]]
    BY <1>1, <1>7 DEF Listed
  <2>2. [work[a] EXCEPT !.at = work[a].then, !.got = got] \in Places
    BY <1>1 DEF Places
  <2> QED BY <2>1, <2>2, <1>1
<1> QED BY <1>4, <1>5, <1>6, <1>7

(* What is left of a budget stays a budget.                                  *)
LEMMA Spends ==
  ASSUME WorkTypes, NEW kind \in {"jobs", "edits", "trouble"}, Spend(kind)
  PROVE  left' \in Lefts
BY DEF WorkTypes, Spend, Lefts

(* Listing a source, from the cache or from upstream, keeps the types.       *)
LEMMA ListingTypes ==
  ASSUME Types, NEW a \in Actors, Listing(a)
  PROVE  Types'
<1> USE DEF Types
<1>0. work \in [Actors -> Places] /\ work[a] \in Places
  BY DEF WorkTypes
<1>1. UNCHANGED Rest
  BY DEF Listing
<1>2. JobTypes' /\ AnswerTypes' /\ check' \in [Checkers -> Checks]
  BY <1>1 DEF Rest, jobVars, viewVars, JobTypes, AnswerTypes, WorkTypes
<1>a. \A s \in Sources : 1..published[s] \in SUBSET Versions
  <2> TAKE s \in Sources
  <2>1. published[s] \in 0..Tops[s] /\ Tops[s] \in Nat /\ 1..Tops[s] \subseteq Versions
    BY VersionsOfSource DEF ListTypes
  <2> QED BY <2>1
<1>3. CASE ListCached(a)
  <2>1. listing[work[a].src] \in SUBSET Versions
    BY <1>3 DEF ListCached, ListTypes, NoList
  <2>2. work' \in [Actors -> Places]
    BY <1>3, <2>1, Moves DEF ListCached
  <2> QED BY <1>1, <1>2, <1>3, <2>2 DEF ListCached, sourceVars, ListTypes, PupTypes, WorkTypes, Rest, jobVars
<1>4. CASE ListDirectory(a)
  <2>2. work' \in [Actors -> Places]
    BY <1>4, <1>a, Moves DEF ListDirectory
  <2> QED BY <1>1, <1>2, <1>4, <2>2 DEF ListDirectory, sourceVars, ListTypes, PupTypes, WorkTypes, Rest, jobVars
<1>5. CASE ListTags(a)
  <2>1. 1..published[work[a].src] \in SUBSET Versions
    BY <1>5, <1>a, SourcesAssumption DEF ListTags
  <2>2. [work[a] EXCEPT !.at = "clone", !.got = 1..published[work[a].src]] \in Places
    BY <1>0, <2>1 DEF Places, Labels
  <2>3. work' \in [Actors -> Places]
    BY <1>0, <1>5, <2>2, Moves DEF ListTags
  <2> QED BY <1>1, <1>2, <1>5, <2>3 DEF ListTags, sourceVars, ListTypes, PupTypes, WorkTypes, Rest, jobVars
<1>6. CASE ListClone(a)
  <2>0. work[a].got \in SUBSET Versions /\ work[a].then \in Labels
    BY <1>0 DEF Places
  <2>1. work' \in [Actors -> Places]
    BY <1>6, <2>0, Moves DEF ListClone
  <2>2. left' \in Lefts
    BY <1>6, Spends DEF ListClone, Trouble, WorkTypes
  <2>3. listing' \in [Git -> {NoList} \cup SUBSET Versions]
    BY <1>6, <2>0 DEF ListClone, ListTypes
  <2> QED BY <1>1, <1>2, <1>6, <2>1, <2>2, <2>3 DEF ListClone, ListTypes, PupTypes, WorkTypes, Rest, jobVars
<1>7. CASE ListFails(a)
  <2>1. work' \in [Actors -> Places]
    BY <1>7, Moves DEF ListFails, Goto, Labels
  <2>2. left' \in Lefts
    BY <1>7, Spends DEF ListFails, Trouble
  <2> QED BY <1>1, <1>2, <1>7, <2>1, <2>2 DEF ListFails, sourceVars, ListTypes, PupTypes, WorkTypes, Rest, jobVars
<1> QED BY <1>3, <1>4, <1>5, <1>6, <1>7 DEF Listing

(* Beginning and ending a check keep the types of the checks.                *)
LEMMA CheckTypes ==
  ASSUME WorkTypes, NEW c \in Checkers
  PROVE  /\ Done(c) /\ check' = [check EXCEPT ![c] = NoCheck] => check' \in [Checkers -> Checks]
         /\ \A batch \in BOOLEAN, todo \in SUBSET Targets : StartCheck(c, batch, todo) =>
              work' \in [Actors -> Places] /\ check' \in [Checkers -> Checks]
<1>1. work \in [Actors -> Places] /\ check \in [Checkers -> Checks] /\ c \in Actors
  BY Blanks DEF WorkTypes
<1>2. check' = [check EXCEPT ![c] = NoCheck] => check' \in [Checkers -> Checks]
  BY <1>1, Blanks
<1>3. [Idle EXCEPT !.at = "next"] \in Places
  BY Blanks DEF Places, Labels
<1>4. ASSUME NEW batch \in BOOLEAN, NEW todo \in SUBSET Targets, StartCheck(c, batch, todo)
      PROVE  work' \in [Actors -> Places] /\ check' \in [Checkers -> Checks]
  <2>1. [NoCheck EXCEPT !.batch = batch, !.todo = todo] \in Checks
    BY Blanks DEF Checks
  <2> QED BY <1>1, <1>3, <2>1, <1>4 DEF StartCheck
<1> QED BY <1>2, <1>4

(* The steps of a check keep the types; the versions it writes are newer     *)
(* than the one it was about, because Newer picks them.                      *)
LEMMA CheckingTypes ==
  ASSUME Types, NEW c \in Checkers, Checking(c)
  PROVE  Types'
<1> USE DEF Types
<1>0. /\ work \in [Actors -> Places] /\ check \in [Checkers -> Checks]
      /\ c \in Actors /\ work[c] \in Places /\ check[c] \in Checks
  BY Blanks DEF WorkTypes
<1>1. ASSUME NEW p \in Pups, CheckPup(c, p)
      PROVE  Types'
  <2>1. pup[p].version \in Numbers /\ pup[p].source \in SourceNames
    BY DEF PupTypes, Pup
  <2>2. [check[c] EXCEPT !.todo = @ \ {p}, !.pup = p, !.ver = pup[p].version] \in Checks
    BY <1>0, <2>1 DEF Checks, Targets
  <2>3. check' = [check EXCEPT ![c] = [check[c] EXCEPT !.todo = @ \ {p}, !.pup = p, !.ver = pup[p].version]]
    BY <1>0, <1>1 DEF CheckPup
  <2>4. check' \in [Checkers -> Checks]
    BY <1>0, <2>2, <2>3
  <2>5. [work[c] EXCEPT !.at = "relist", !.src = pup[p].source, !.then = "write"] \in Places
    BY <1>0, <2>1 DEF Places, Labels
  <2>6. work' \in [Actors -> Places]
    BY <1>0, <1>1, <2>5 DEF CheckPup
  <2> QED BY <1>1, <2>4, <2>6 DEF CheckPup, sourceVars, jobVars, viewVars, ListTypes, PupTypes,
                                  WorkTypes, JobTypes, AnswerTypes
<1>2. CASE CheckFails(c)
  <2>1. work' \in [Actors -> Places]
    BY <1>0, <1>2, Moves DEF CheckFails, Labels
  <2> QED BY <1>2, <2>1 DEF CheckFails, sourceVars, jobVars, viewVars, ListTypes, PupTypes,
                            WorkTypes, JobTypes, AnswerTypes
<1>3. CASE WriteCache(c)
  <2>1. [cur |-> check[c].ver, avail |-> Newer(c)] \in Offers
    <3>1. check[c].ver \in Numbers /\ work[c].got \in SUBSET Versions
      BY <1>0 DEF Checks, Places
    <3>2. Newer(c) \in SUBSET Versions /\ \A v \in Newer(c) : v > check[c].ver
      BY <3>1 DEF Newer
    <3> QED BY <3>1, <3>2 DEF Offers, Entries, Numbers
  <2>2. cache' \in [Pups -> Offers]
    BY <1>3, <2>1 DEF WriteCache, AnswerTypes
  <2>3. [Idle EXCEPT !.at = "emit"] \in Places
    BY Blanks DEF Places, Labels
  <2>4. work' \in [Actors -> Places]
    BY <1>0, <1>3, <2>3 DEF WriteCache
  <2>5. [check[c] EXCEPT !.pup = "none", !.ver = 0] \in Checks
    BY <1>0 DEF Checks, Targets, Numbers
  <2>6. check' = [check EXCEPT ![c] = [check[c] EXCEPT !.pup = "none", !.ver = 0]]
    BY <1>0, <1>3 DEF WriteCache
  <2>7. check' \in [Checkers -> Checks]
    BY <1>0, <2>5, <2>6
  <2> QED BY <1>3, <2>2, <2>4, <2>7 DEF WriteCache, sourceVars, jobVars, viewVars, ListTypes,
                                        PupTypes, WorkTypes, JobTypes, AnswerTypes
<1>4. CASE CheckEnds(c)
  <2>1. work' \in [Actors -> Places] /\ check' \in [Checkers -> Checks]
    BY <1>0, <1>4, Moves, CheckTypes DEF CheckEnds, Labels
  <2> QED BY <1>4, <2>1 DEF CheckEnds, sourceVars, jobVars, viewVars, ListTypes, PupTypes,
                            WorkTypes, JobTypes, AnswerTypes
<1>5. CASE EmitEvent(c)
  <2>1. [Idle EXCEPT !.at = "next"] \in Places
    BY Blanks DEF Places, Labels
  <2>2. work' \in [Actors -> Places] /\ check' \in [Checkers -> Checks]
    BY <1>0, <1>5, <2>1, Moves, CheckTypes DEF EmitEvent
  <2>3. events' \in 0..MaxEvents
    BY <1>5, UpdatesAssumption DEF EmitEvent, Emitted, AnswerTypes
  <2>4. disk' \in [Pups -> Offers]
    BY <1>5 DEF EmitEvent, AnswerTypes
  <2> QED BY <1>5, <2>2, <2>3, <2>4 DEF EmitEvent, sourceVars, jobVars, viewVars, ListTypes,
                                        PupTypes, WorkTypes, JobTypes, AnswerTypes
<1> QED BY <1>1, <1>2, <1>3, <1>4, <1>5 DEF Checking

(* What is asked for and sent on is well formed.                             *)
LEMMA Asks ==
  ASSUME Types
  PROVE  /\ \A s \in Sources : \A v \in 1..published[s] : Ask("install", "none", s, v) \in Requests
         /\ \A p \in Installed : \A v \in cache[p].avail : Ask("upgrade", p, pup[p].source, v) \in Requests
         /\ \A p \in Installed : \A kind \in {"rollback", "purge", "check"} :
              Ask(kind, p, pup[p].source, 0) \in Requests
         /\ Ask("check", "all", "none", 0) \in Requests
<1> USE DEF Types
<1>1. ASSUME NEW s \in Sources, NEW v \in 1..published[s]
      PROVE  Ask("install", "none", s, v) \in Requests
  <2>1. published[s] \in 0..Tops[s] /\ Tops[s] \in Nat /\ 1..Tops[s] \subseteq Versions
    BY VersionsOfSource DEF ListTypes
  <2>2. v \in Numbers
    BY <2>1 DEF Numbers
  <2> QED BY <2>2 DEF Ask, Requests, Kinds, AllJobs, Targets, SourceNames
<1>2. \A p \in Installed : p \in Pups /\ pup[p].source \in SourceNames
  BY DEF Installed, PupTypes, Pup
<1>3. ASSUME NEW p \in Installed, NEW v \in cache[p].avail
      PROVE  Ask("upgrade", p, pup[p].source, v) \in Requests
  <2>1. v \in Numbers
    BY <1>2 DEF AnswerTypes, Offers, Entries, Numbers
  <2> QED BY <1>2, <2>1 DEF Ask, Requests, Kinds, AllJobs, Targets
<1>4. \A p \in Installed : \A kind \in {"rollback", "purge", "check"} :
        Ask(kind, p, pup[p].source, 0) \in Requests
  BY <1>2 DEF Ask, Requests, Kinds, AllJobs, Targets, Numbers
<1>5. Ask("check", "all", "none", 0) \in Requests
  BY DEF Ask, Requests, Kinds, Targets, Numbers, SourceNames
<1> QED BY <1>1, <1>3, <1>4, <1>5

(* The frontend's requests keep the types.                                   *)
LEMMA RequestTypes ==
  ASSUME Types, RequestJob \/ RefreshStore \/ StoreSource
  PROVE  Types'
<1> USE DEF Types
<1>0. /\ work \in [Actors -> Places] /\ "store" \in Actors /\ work["store"] \in Places
      /\ inbox \in Seq(Requests)
  BY Blanks DEF WorkTypes, JobTypes
<1>1. CASE RequestJob
  <2>1. left' \in Lefts
    BY <1>1, Spends DEF RequestJob
  <2>2. \E j \in Requests : inbox' = Append(inbox, j)
    BY <1>1, Asks DEF RequestJob, Request
  <2>3. inbox' \in Seq(Requests)
    BY <1>0, <2>2
  <2> QED BY <1>1, <2>1, <2>3 DEF RequestJob, sourceVars, viewVars, ListTypes, PupTypes, WorkTypes,
                                  JobTypes, AnswerTypes
<1>2. CASE RefreshStore
  <2>1. left' \in Lefts
    BY <1>2, Spends DEF RefreshStore
  <2>2. Len(sources) \in Nat
    BY DEF ListTypes
  <2>3. [work["store"] EXCEPT !.at = "source", !.index = Len(sources)] \in Places
    BY <1>0, <2>2 DEF Places, Labels
  <2>4. work' \in [Actors -> Places]
    BY <1>0, <1>2, <2>3 DEF RefreshStore
  <2> QED BY <1>2, <2>1, <2>4 DEF RefreshStore, sourceVars, jobVars, viewVars, ListTypes, PupTypes,
                                  WorkTypes, JobTypes, AnswerTypes
<1>3. CASE StoreSource
  <2> DEFINE i == work["store"].index
  <2>0. i \in Nat
    BY <1>0 DEF Places
  <2>1. CASE i = 0
    <3>1. work' \in [Actors -> Places]
      BY <1>0, <1>3, <2>1, Moves DEF StoreSource
    <3>2. inbox' \in Seq(Requests)
      BY <1>0, <1>3, <2>1, Asks DEF StoreSource, Request
    <3> QED BY <1>3, <3>1, <3>2 DEF StoreSource, sourceVars, viewVars, ListTypes, PupTypes,
                                    WorkTypes, JobTypes, AnswerTypes
  <2>2. CASE i # 0
    <3>1. i - 1 \in Nat
      BY <2>0, <2>2
    <3>2. ASSUME i \in DOMAIN sources
          PROVE  [work["store"] EXCEPT !.at = "relist", !.src = sources[i], !.then = "source",
                                       !.got = {}, !.index = i - 1] \in Places
      <4>1. sources[i] \in SourceNames
        BY <3>2 DEF ListTypes, SourceNames
      <4> QED BY <1>0, <3>1, <4>1 DEF Places, Labels
    <3>3. [work["store"] EXCEPT !.at = "source", !.index = i - 1] \in Places
      BY <1>0, <3>1 DEF Places, Labels
    <3>4. work' \in [Actors -> Places]
      BY <1>0, <1>3, <2>2, <3>2, <3>3 DEF StoreSource
    <3> QED BY <1>3, <2>2, <3>4 DEF StoreSource, sourceVars, viewVars, ListTypes, PupTypes,
                                    WorkTypes, JobTypes, AnswerTypes
  <2> QED BY <2>1, <2>2
<1> QED BY <1>1, <1>2, <1>3

(* The main loop's jobDispatcher keeps the types.                            *)
LEMMA DispatchTypes ==
  ASSUME Types, Dispatch
  PROVE  Types'
<1> USE DEF Types
<1> DEFINE j == Head(inbox)
<1>0. /\ work \in [Actors -> Places] /\ "loop" \in Actors /\ "loop" \in Checkers
      /\ inbox \in Seq(Requests) /\ inbox # <<>> /\ jobq \in Seq(Requests)
  BY Blanks DEF WorkTypes, JobTypes, Checkers, Dispatch
<1>1. j \in Requests /\ inbox' \in Seq(Requests)
  BY <1>0 DEF Dispatch
<1>2. CASE j.kind = "install"
  <2>1. j.src \in SourceNames
    BY <1>1 DEF Requests
  <2>2. [Idle EXCEPT !.at = "list", !.src = j.src, !.then = "adopt", !.job = j] \in Places
    BY <1>1, <2>1, Blanks DEF Places, Labels
  <2>3. work' \in [Actors -> Places]
    <3>1. CASE GetSource(j.src)
      <4>1. work' = [work EXCEPT !["loop"] =
                       [Idle EXCEPT !.at = "list", !.src = j.src, !.then = "adopt", !.job = j]]
        BY <1>2, <3>1 DEF Dispatch
      <4> QED BY <1>0, <2>2, <4>1, Moves
    <3>2. CASE ~GetSource(j.src)
      BY <1>0, <1>2, <3>2 DEF Dispatch
    <3> QED BY <3>1, <3>2
  <2>4. UNCHANGED <<jobq, check, sourceVars, pup, left, cache, disk, outcome, snapshot, viewVars>>
    BY <1>2 DEF Dispatch
  <2> QED BY <1>1, <2>3, <2>4 DEF sourceVars, viewVars, ListTypes, PupTypes, WorkTypes,
                                  JobTypes, AnswerTypes
<1>3. CASE j.kind = "check"
  <2>1. (IF j.pup = "all" THEN ToCheck ELSE {j.pup}) \in SUBSET Targets
    BY <1>1 DEF Requests, ToCheck, Installed, Targets
  <2>2. StartCheck("loop", j.pup = "all", IF j.pup = "all" THEN ToCheck ELSE {j.pup})
    BY <1>3 DEF Dispatch
  <2>3. work' \in [Actors -> Places] /\ check' \in [Checkers -> Checks]
    BY <1>0, <2>1, <2>2, CheckTypes
  <2>4. UNCHANGED <<jobq, sourceVars, pup, left, cache, disk, outcome, snapshot, viewVars>>
    BY <1>3 DEF Dispatch
  <2> QED BY <1>1, <2>3, <2>4 DEF sourceVars, viewVars, ListTypes, PupTypes, WorkTypes,
                                  JobTypes, AnswerTypes
<1>4. CASE j.kind \notin {"install", "check"}
  <2>1. jobq' = IF j.pup \in Installed THEN Append(jobq, j) ELSE jobq
    BY <1>4 DEF Dispatch
  <2>2. jobq' \in Seq(Requests)
    BY <1>0, <1>1, <2>1
  <2>3. UNCHANGED <<work, check, sourceVars, pup, left, cache, disk, outcome, snapshot, viewVars>>
    BY <1>4 DEF Dispatch
  <2> QED BY <1>1, <2>2, <2>3 DEF sourceVars, viewVars, ListTypes, PupTypes, WorkTypes,
                                  JobTypes, AnswerTypes
<1> QED BY <1>2, <1>3, <1>4

(* The main loop's other steps, and the frontend's reads, keep the types.    *)
LEMMA LoopTypes ==
  ASSUME Types, AdoptPup \/ CompleteJob \/ ReadEvent \/ PeriodicCheck \/ SaveCleared \/ Fetch
  PROVE  Types'
<1> USE DEF Types
<1>0. /\ work \in [Actors -> Places] /\ {"loop", "done", "clear", "periodic"} \subseteq Actors
      /\ {"done", "periodic"} \subseteq Checkers /\ outcome \in Outcomes
      /\ jobq \in Seq(Requests)
  BY Blanks DEF WorkTypes, JobTypes, Checkers
<1>1. CASE AdoptPup
  <2> DEFINE j == work["loop"].job
             new == [version |-> j.to, source |-> j.src]
  <2>1. j \in Requests /\ work["loop"].got \subseteq Versions
    BY <1>0 DEF Places
  <2>2. work' \in [Actors -> Places]
    BY <1>0, <1>1, Moves DEF AdoptPup
  <2>3. CASE UNCHANGED <<pup, jobq>>
    BY <1>1, <2>2, <2>3 DEF AdoptPup, sourceVars, viewVars, ListTypes, PupTypes, WorkTypes,
                            JobTypes, AnswerTypes
  <2>4. CASE ~UNCHANGED <<pup, jobq>>
    <3>1. /\ j.to \in work["loop"].got /\ j.kind = "install"
          /\ \E p \in Pups \ Installed : pup' = [pup EXCEPT ![p] = new]
                                         /\ jobq' = Append(jobq, [j EXCEPT !.pup = p])
      BY <1>1, <2>4 DEF AdoptPup
    <3>2. PICK p \in Pups : pup' = [pup EXCEPT ![p] = new]
                            /\ jobq' = Append(jobq, [j EXCEPT !.pup = p])
      BY <3>1
    <3>3. new.version \in Versions /\ new.source \in Sources /\ new \in Pup
      BY <2>1, <3>1 DEF Requests, Pup, Numbers, SourceNames
    <3>4. PupTypes'
      BY <1>1, <3>2, <3>3 DEF PupTypes, AdoptPup
    <3>5. [j EXCEPT !.pup = p] \in Requests
      BY <2>1 DEF Requests, Targets
    <3>6. jobq' \in Seq(Requests)
      BY <1>0, <3>2, <3>5
    <3> QED BY <1>1, <2>2, <3>4, <3>6 DEF AdoptPup, sourceVars, viewVars, ListTypes, WorkTypes,
                                          JobTypes, AnswerTypes
  <2> QED BY <2>3, <2>4
<1>2. CASE CompleteJob
  <2>1. outcome' \in Outcomes
    BY <1>2, Blanks DEF CompleteJob
  <2>2. outcome.job.pup \in Targets
    BY <1>0 DEF Outcomes, Requests
  <2>3. UNCHANGED <<sourceVars, pup, left, disk, inbox, jobq, snapshot, viewVars>>
    BY <1>2 DEF CompleteJob
  <2>4. CASE ChecksAfter(outcome)
    <3>1. StartCheck("done", FALSE, {outcome.job.pup}) /\ UNCHANGED cache
      BY <1>2, <2>4 DEF CompleteJob, ChecksAfter
    <3>2. work' \in [Actors -> Places] /\ check' \in [Checkers -> Checks]
      BY <1>0, <2>2, <3>1, CheckTypes
    <3> QED BY <2>1, <2>3, <3>1, <3>2 DEF sourceVars, viewVars, ListTypes, PupTypes, WorkTypes,
                                          JobTypes, AnswerTypes
  <2>5. CASE ~ChecksAfter(outcome) /\ outcome.job.kind = "purge"
    <3>1. /\ cache' = [cache EXCEPT ![outcome.job.pup] = NoEntry] /\ UNCHANGED check
          /\ work' = [work EXCEPT !["clear"] = SaveAgain]
      BY <1>2, <2>5 DEF CompleteJob, ClearEntry
    <3>2. cache' \in [Pups -> Offers]
      BY <3>1, Blanks DEF AnswerTypes
    <3>3. SaveAgain \in Places
      BY Blanks DEF SaveAgain, Places, Labels
    <3>4. work' \in [Actors -> Places]
      BY <1>0, <3>1, <3>3
    <3> QED BY <2>1, <2>3, <3>1, <3>2, <3>4 DEF sourceVars, viewVars, ListTypes, PupTypes,
                                                WorkTypes, JobTypes, AnswerTypes
  <2>6. CASE ~ChecksAfter(outcome) /\ outcome.job.kind # "purge"
    <3>1. UNCHANGED <<work, check, cache>>
      BY <1>2, <2>6 DEF CompleteJob
    <3> QED BY <2>1, <2>3, <3>1 DEF sourceVars, viewVars, ListTypes, PupTypes, WorkTypes,
                                    JobTypes, AnswerTypes
  <2> QED BY <2>4, <2>5, <2>6
<1>3. CASE ReadEvent
  <2>1. left' \in Lefts
    BY <1>3, Spends DEF ReadEvent, Trouble, WorkTypes
  <2>2. events' \in 0..MaxEvents
    BY <1>3, UpdatesAssumption DEF ReadEvent, AnswerTypes
  <2>3. pending' \in BOOLEAN /\ gaveUp' \in BOOLEAN
    BY <1>3 DEF ReadEvent, AnswerTypes
  <2> QED BY <1>3, <2>1, <2>2, <2>3 DEF ReadEvent, sourceVars, jobVars, ListTypes, PupTypes,
                                        WorkTypes, JobTypes, AnswerTypes
<1>4. CASE PeriodicCheck
  <2>1. ToCheck \in SUBSET Targets
    BY DEF ToCheck, Installed, Targets
  <2>2. work' \in [Actors -> Places] /\ check' \in [Checkers -> Checks]
    BY <1>0, <1>4, <2>1, CheckTypes DEF PeriodicCheck
  <2> QED BY <1>4, <2>2 DEF PeriodicCheck, sourceVars, jobVars, viewVars, ListTypes, PupTypes,
                            WorkTypes, JobTypes, AnswerTypes
<1>5. CASE SaveCleared
  <2>1. work' \in [Actors -> Places]
    BY <1>0, <1>5, Moves DEF SaveCleared
  <2> QED BY <1>5, <2>1 DEF SaveCleared, sourceVars, jobVars, viewVars, ListTypes, PupTypes,
                            WorkTypes, JobTypes, AnswerTypes
<1>6. CASE Fetch
  BY <1>6 DEF Fetch, sourceVars, jobVars, viewVars, ListTypes, PupTypes, WorkTypes, JobTypes,
              AnswerTypes
<1> QED BY <1>1, <1>2, <1>3, <1>4, <1>5, <1>6

(* Taking up a listing.                                                      *)
LEMMA TakesUp ==
  ASSUME Types, NEW then \in Labels, NEW j \in Requests, List(then, j)
  PROVE  work' \in [Actors -> Places]
<1>0. work \in [Actors -> Places] /\ "updater" \in Actors
  BY Blanks DEF Types, WorkTypes
<1>1. j.src \in SourceNames
  BY DEF Requests
<1>2. /\ [Idle EXCEPT !.at = "list", !.src = j.src, !.then = then, !.job = j] \in Places
      /\ [Idle EXCEPT !.at = "unlisted", !.job = j] \in Places
  BY <1>1, Blanks DEF Places, Labels
<1> QED BY <1>0, <1>2 DEF List

(* The SystemUpdater takes a job: the types are kept.                        *)
LEMMA TakeJobTypes ==
  ASSUME Types, TakeJob
  PROVE  Types'
<1> USE DEF Types
<1> DEFINE j == Head(jobq)
<1>0. /\ work \in [Actors -> Places] /\ "updater" \in Actors
      /\ jobq \in Seq(Requests) /\ jobq # <<>>
  BY Blanks DEF WorkTypes, JobTypes, TakeJob
<1>1. j \in Requests /\ jobq' \in Seq(Requests)
  BY <1>0 DEF TakeJob
<1>2. UNCHANGED <<sourceVars, left, cache, disk, check, inbox, outcome, viewVars>>
  BY DEF TakeJob
<1>3. /\ snapshot \in [Pups -> Numbers] /\ pup \in [Pups -> Pup]
      /\ \A p \in Pups : pup[p].version \in Numbers
  BY DEF PupTypes, Pup
<1>4. ASSUME work' \in [Actors -> Places], PupTypes'
      PROVE  Types'
  BY <1>1, <1>2, <1>4 DEF sourceVars, viewVars, ListTypes, PupTypes, WorkTypes, JobTypes, AnswerTypes
<1>5. CASE j.kind = "install"
  <2>1. List("place", j) /\ UNCHANGED <<pup, snapshot>>
    BY <1>5 DEF TakeJob
  <2>2. work' \in [Actors -> Places]
    BY <1>1, <2>1, TakesUp DEF Labels
  <2> QED BY <1>4, <2>1, <2>2 DEF PupTypes
<1>6. CASE j.kind = "upgrade"
  <2>1. List("bump", j) /\ UNCHANGED pup
        /\ snapshot' = [snapshot EXCEPT ![j.pup] = pup[j.pup].version]
    BY <1>6 DEF TakeJob
  <2>2. work' \in [Actors -> Places]
    BY <1>1, <2>1, TakesUp DEF Labels
  <2>3. snapshot' \in [Pups -> Numbers]
    BY <1>3, <2>1
  <2> QED BY <1>4, <2>1, <2>2, <2>3 DEF PupTypes
<1>7. CASE j.kind = "rollback"
  <2>1. UNCHANGED <<pup, snapshot>>
    BY <1>7 DEF TakeJob
  <2>2. CASE snapshot[j.pup] = 0
    <3>1. work' = [work EXCEPT !["updater"] = [Idle EXCEPT !.at = "unlisted", !.job = j]]
      BY <1>7, <2>2 DEF TakeJob
    <3>2. [Idle EXCEPT !.at = "unlisted", !.job = j] \in Places
      BY <1>1, Blanks DEF Places, Labels
    <3>3. work' \in [Actors -> Places]
      BY <1>0, <3>1, <3>2
    <3> QED BY <1>4, <2>1, <3>3 DEF PupTypes
  <2>3. CASE snapshot[j.pup] # 0
    <3>1. List("place", [j EXCEPT !.to = snapshot[j.pup]])
      BY <1>7, <2>3 DEF TakeJob
    <3>2. j.pup \in Pups
      BY <1>1, <1>7 DEF Requests
    <3>3. [j EXCEPT !.to = snapshot[j.pup]] \in Requests
      BY <1>1, <1>3, <3>2 DEF Requests
    <3> QED BY <1>4, <2>1, <3>1, <3>3, TakesUp DEF PupTypes, Labels
  <2> QED BY <2>2, <2>3
<1>8. CASE j.kind \notin {"install", "upgrade", "rollback"}
  <2>1. /\ pup' = [pup EXCEPT ![j.pup] = NoPup] /\ UNCHANGED snapshot
        /\ work' = [work EXCEPT !["updater"] = [Idle EXCEPT !.at = "finish", !.job = j]]
    BY <1>8 DEF TakeJob
  <2>2. [Idle EXCEPT !.at = "finish", !.job = j] \in Places
    BY <1>1, Blanks DEF Places, Labels
  <2>3. work' \in [Actors -> Places]
    BY <1>0, <2>1, <2>2
  <2>4. NoPup \in Pup
    BY DEF NoPup, Pup, Numbers, SourceNames
  <2>5. PupTypes'
    BY <1>3, <2>1, <2>4 DEF PupTypes
  <2> QED BY <1>4, <2>3, <2>5
<1> QED BY <1>5, <1>6, <1>7, <1>8

(* The steps of its jobs keep the types: a version is written only when it   *)
(* was listed and the pup is still there.                                    *)
LEMMA UpdaterTypes ==
  ASSUME Types, BumpVersion \/ Download \/ Place \/ FinishJob
  PROVE  Types'
<1> USE DEF Types
<1>0. /\ work \in [Actors -> Places] /\ {"updater", "clear"} \subseteq Actors
      /\ work["updater"] \in Places
  BY Blanks DEF WorkTypes
<1>1. /\ Job \in Requests /\ work["updater"].got \subseteq Versions
      /\ Installed \subseteq Pups
  BY <1>0 DEF Job, Places, Installed
<1>2. ASSUME Job.to \in work["updater"].got, Job.pup \in Installed,
             pup' = [pup EXCEPT ![Job.pup].version = Job.to], snapshot' \in [Pups -> Numbers]
      PROVE  PupTypes'
  <2>1. /\ Job.pup \in Pups /\ Job.to \in Versions /\ pup[Job.pup].version # 0
        /\ pup \in [Pups -> Pup]
    BY <1>1, <1>2 DEF Installed, PupTypes
  <2>2. pup[Job.pup].source \in Sources
    BY <2>1 DEF PupTypes, NoPup
  <2>3. [pup[Job.pup] EXCEPT !.version = Job.to] \in Pup
    BY <2>1 DEF Pup, Numbers
  <2>4. pup' \in [Pups -> Pup]
    BY <1>2, <2>1, <2>3
  <2>5. pup'[Job.pup].version = Job.to /\ pup'[Job.pup].source = pup[Job.pup].source
    BY <1>2, <2>1 DEF Pup
  <2>6. \A p \in Pups : p # Job.pup => pup'[p] = pup[p]
    BY <1>2, <2>1
  <2>7. \A p \in Pups : pup'[p] = NoPup \/ (pup'[p].version \in Versions /\ pup'[p].source \in Sources)
    BY <2>1, <2>2, <2>5, <2>6 DEF PupTypes
  <2> QED BY <1>2, <2>4, <2>7 DEF PupTypes
<1>3. CASE BumpVersion
  <2>1. UNCHANGED <<sourceVars, left, disk, check, jobVars, viewVars>>
    BY <1>3 DEF BumpVersion
  <2>2. CASE Job.to \in work["updater"].got /\ Job.pup \in Installed
    <3>1. /\ pup' = [pup EXCEPT ![Job.pup].version = Job.to]
          /\ cache' = [cache EXCEPT ![Job.pup] = NoEntry]
          /\ work' = [work EXCEPT !["updater"].at = "fetch", !["clear"] = SaveAgain]
      BY <1>3, <2>2 DEF BumpVersion, ClearEntry
    <3>2. [work["updater"] EXCEPT !.at = "fetch"] \in Places /\ SaveAgain \in Places
      BY <1>0, Blanks DEF Places, Labels, SaveAgain
    <3>3. work' \in [Actors -> Places]
      BY <1>0, <3>1, <3>2
    <3>4. cache' \in [Pups -> Offers]
      BY <3>1, Blanks DEF AnswerTypes
    <3>5. snapshot' \in [Pups -> Numbers]
      BY <2>1 DEF jobVars, PupTypes
    <3>6. PupTypes'
      BY <1>2, <2>2, <3>1, <3>5
    <3> QED BY <2>1, <3>3, <3>4, <3>6 DEF sourceVars, jobVars, viewVars, ListTypes, WorkTypes,
                                          JobTypes, AnswerTypes
  <2>3. CASE ~(Job.to \in work["updater"].got /\ Job.pup \in Installed)
    <3>1. Goto("updater", "unlisted") /\ UNCHANGED <<pup, cache>>
      BY <1>3, <2>3 DEF BumpVersion
    <3>2. work' \in [Actors -> Places]
      BY <1>0, <3>1, Moves DEF Labels
    <3> QED BY <2>1, <3>1, <3>2 DEF sourceVars, jobVars, viewVars, ListTypes, PupTypes, WorkTypes,
                                    JobTypes, AnswerTypes
  <2> QED BY <2>2, <2>3
<1>4. CASE Download
  <2>1. work' \in [Actors -> Places]
    BY <1>1, <1>4, TakesUp DEF Download, Labels
  <2> QED BY <1>4, <2>1 DEF Download, sourceVars, jobVars, viewVars, ListTypes, PupTypes,
                            WorkTypes, JobTypes, AnswerTypes
<1>5. CASE Place
  <2>1. UNCHANGED <<sourceVars, left, cache, disk, check, inbox, jobq, outcome, viewVars>>
    BY <1>5 DEF Place
  <2>2. work' \in [Actors -> Places]
    BY <1>0, <1>5, Moves DEF Place, Labels
  <2>3. PupTypes'
    <3>1. CASE Job.to \in work["updater"].got /\ Job.pup \in Installed
      <4>1. pup' = [pup EXCEPT ![Job.pup].version = Job.to]
        BY <1>5, <3>1 DEF Place
      <4>2. snapshot' \in [Pups -> Numbers]
        BY <1>5, <3>1 DEF Place, PupTypes, Numbers
      <4> QED BY <1>2, <3>1, <4>1, <4>2
    <3>2. CASE ~(Job.to \in work["updater"].got /\ Job.pup \in Installed)
      BY <1>5, <3>2 DEF Place, PupTypes
    <3> QED BY <3>1, <3>2
  <2> QED BY <2>1, <2>2, <2>3 DEF sourceVars, viewVars, ListTypes, WorkTypes, JobTypes, AnswerTypes
<1>6. CASE FinishJob
  <2>1. work' \in [Actors -> Places]
    BY <1>0, <1>6, Moves DEF FinishJob
  <2>2. outcome' \in Outcomes
    BY <1>1, <1>6 DEF FinishJob, Outcomes, At
  <2> QED BY <1>6, <2>1, <2>2 DEF FinishJob, sourceVars, viewVars, ListTypes, PupTypes,
                                  WorkTypes, JobTypes, AnswerTypes
<1> QED BY <1>3, <1>4, <1>5, <1>6

-----------------------------------------------------------------------------
(* The list without its last source is a list of sources.                    *)
LEMMA FrontType ==
  ASSUME NEW s \in Seq(Sources)
  PROVE  Front(s) \in Seq(Sources)
<1>1. Len(s) \in Nat /\ DOMAIN s = 1..Len(s) /\ \A k \in 1..Len(s) : s[k] \in Sources
  OBVIOUS
<1>2. \A k \in 1..(Len(s) - 1) : k \in 1..Len(s)
  BY <1>1
<1>3. SubSeq(s, 1, Len(s) - 1) \in Seq(Sources)
  BY <1>1, <1>2
<1> QED BY <1>3 DEF Front

(* Moving the sources after an index down loses none but the one there, and  *)
(* leaves the last of them twice: without its end the list has them still.   *)
LEMMA Shifting ==
  ASSUME NEW s \in Seq(Sources), NEW i \in DOMAIN s
  PROVE  LET t == Shifted(s, i) IN
         /\ t \in Seq(Sources) /\ Range(Front(t)) \subseteq Range(t) /\ Range(t) \subseteq Range(s)
         /\ Range(s) \ {s[i]} \subseteq Range(Front(t))
<1> DEFINE n == Len(s)
           From(k) == IF k < i \/ k = n THEN k ELSE k + 1
           t == [k \in 1..n |-> s[From(k)]]
<1>1. n \in Nat /\ DOMAIN s = 1..n /\ \A k \in 1..n : s[k] \in Sources
  OBVIOUS
<1>2. i \in 1..n
  BY <1>1
<1>3. Shifted(s, i) = t
  BY <1>1 DEF Shifted
<1> HIDE DEF n
<1>4. \A k \in 1..n : From(k) \in 1..n
  BY <1>1, <1>2
<1>5. t \in Seq(Sources)
  <2> HIDE DEF From
  <2>1. t \in [1..n -> Sources]
    BY <1>1, <1>4
  <2> QED BY <1>1, <2>1
<1>6. Len(t) = n /\ DOMAIN t = 1..n /\ \A k \in 1..n : t[k] = s[From(k)]
  <2> HIDE DEF From
  <2> QED BY <1>1
<1> HIDE DEF t
<1>7. DOMAIN Front(t) = 1..(n - 1) /\ \A k \in 1..(n - 1) : Front(t)[k] = t[k]
  <2>1. Front(t) = SubSeq(t, 1, n - 1)
    BY <1>6 DEF Front
  <2> QED BY <1>1, <1>5, <1>6, <2>1
<1>8. \A k \in 1..(n - 1) : k \in 1..n
  BY <1>1
<1>9. Range(Front(t)) \subseteq Range(t)
  <2> SUFFICES ASSUME NEW k \in 1..(n - 1) PROVE t[k] \in Range(t)
    BY <1>7 DEF Range
  <2> QED BY <1>6, <1>8 DEF Range
<1>10. Range(t) \subseteq Range(s)
  <2> HIDE DEF From
  <2> SUFFICES ASSUME NEW k \in 1..n PROVE s[From(k)] \in Range(s)
    BY <1>6 DEF Range
  <2> QED BY <1>1, <1>4 DEF Range
<1>11. ASSUME NEW k \in 1..n, k # i
       PROVE  \E m \in 1..(n - 1) : t[m] = s[k]
  <2>1. CASE k < i
    <3>1. k \in 1..(n - 1) /\ From(k) = k
      BY <1>1, <1>2, <2>1
    <3> QED BY <1>6, <1>8, <3>1
  <2>2. CASE k > i
    <3>1. k - 1 \in 1..(n - 1) /\ From(k - 1) = k
      BY <1>1, <1>2, <2>2
    <3> QED BY <1>6, <1>8, <3>1
  <2> QED BY <1>1, <1>2, <1>11, <2>1, <2>2
<1>12. Range(s) \ {s[i]} \subseteq Range(Front(t))
  <2> SUFFICES ASSUME NEW k \in 1..n, k # i PROVE s[k] \in Range(Front(t))
    BY <1>1 DEF Range
  <2>1. PICK m \in 1..(n - 1) : t[m] = s[k]
    BY <1>11
  <2>2. Front(t)[m] = s[k]
    BY <1>7, <2>1
  <2> QED BY <1>7, <2>2 DEF Range
<1> QED BY <1>3, <1>5, <1>9, <1>10, <1>12

(* An edit moves nobody but the one who makes it, and says where to.         *)
LEMMA EditMoves ==
  ASSUME Types, NEW a \in Admins, Edit(a)
  PROVE  /\ a \in Actors /\ work' \in [Actors -> Places]
         /\ \A b \in Actors : b # a => work'[b] = work[b]
         /\ work'[a].at \in Editing =>
              (work'[a].src = work[a].src /\ work[a].at \in Editing) \/ work'[a].src \in Sources
         /\ work'[a].at = "shrink" =>
              work[a].at = "remove" /\ work[a].index \in DOMAIN sources /\ work'[a].src = work[a].src
                /\ work'[a].list = Shifted(sources, work[a].index)
<1> DEFINE w == work[a]
           Moved(r) == work' = [work EXCEPT ![a] = r]
<1>0. /\ work \in [Actors -> Places] /\ a \in Actors /\ w \in Places /\ sources \in Seq(Sources)
  BY Blanks DEF Types, WorkTypes, ListTypes
<1>1. Idle \in Places /\ Idle.at \notin Editing
  BY Blanks DEF Idle, Editing
<1>2. Done(a) => Moved(Idle)
  BY DEF Done
<1>3. \A l \in Labels : [w EXCEPT !.at = l] \in Places
  BY <1>0 DEF Places
<1>4. ASSUME NEW l \in Labels, Goto(a, l), l # "shrink", l \in Editing => w.at \in Editing
      PROVE  \E r \in Places : Moved(r) /\ r.at # "shrink" /\ (r.at \in Editing => r.src = w.src /\ w.at \in Editing)
  <2>1. Moved([w EXCEPT !.at = l])
    BY <1>0, <1>4 DEF Goto
  <2>2. [w EXCEPT !.at = l].at = l /\ [w EXCEPT !.at = l].src = w.src
    BY <1>0 DEF Places
  <2> QED BY <1>3, <1>4, <2>1, <2>2
<1>5. ASSUME NEW l \in Editing, NEW list \in Seq(Sources), w.at \in Editing,
             work' = [work EXCEPT ![a].at = l, ![a].list = list]
      PROVE  \E r \in Places : Moved(r) /\ r.at = l /\ r.src = w.src /\ r.list = list
  <2> DEFINE r == [[w EXCEPT !.at = l] EXCEPT !.list = list]
  <2>1. r \in Places /\ r.at = l /\ r.src = w.src /\ r.list = list
    BY <1>0 DEF Places, Labels, Editing
  <2>2. Moved(r)
    BY <1>0, <1>5
  <2> QED BY <2>1, <2>2
<1> DEFINE Fine(r) == /\ Moved(r)
                      /\ r.at \in Editing => (r.src = w.src /\ w.at \in Editing) \/ r.src \in Sources
                      /\ r.at = "shrink" => w.at = "remove" /\ w.index \in DOMAIN sources /\ r.src = w.src
                                              /\ r.list = Shifted(sources, w.index)
<1> HIDE DEF Moved
<1>6. ASSUME NEW s \in Sources, PutSource(a, s)
      PROVE  \E r \in Places : Fine(r)
  <2> DEFINE r == [[w EXCEPT !.at = "validate"] EXCEPT !.src = s]
  <2>1. r \in Places /\ r.at = "validate" /\ r.src = s
    BY <1>0 DEF Places, Labels, SourceNames
  <2>2. Moved(r)
    BY <1>0, <1>6 DEF PutSource, Moved
  <2> QED BY <2>1, <2>2
<1>7. ASSUME NEW s \in Sources, DeleteSource(a, s)
      PROVE  \E r \in Places : Fine(r)
  <2>1. CASE work' = work
    <3>1. Moved(w)
      BY <1>0, <2>1 DEF Moved
    <3>2. w.at = "idle"
      BY <1>7 DEF DeleteSource, At
    <3> QED BY <1>0, <3>1, <3>2 DEF Editing
  <2>2. CASE work' # work
    <3>1. PICK i \in DOMAIN sources : work' = [work EXCEPT ![a].at = "unused", ![a].src = s, ![a].index = i]
      BY <1>7, <2>2 DEF DeleteSource
    <3> DEFINE r == [[[w EXCEPT !.at = "unused"] EXCEPT !.src = s] EXCEPT !.index = i]
    <3>2. i \in Nat
      BY <1>0
    <3>3. r \in Places /\ r.at = "unused" /\ r.src = s
      BY <1>0, <3>2 DEF Places, Labels, SourceNames
    <3>4. Moved(r)
      BY <1>0, <3>1 DEF Moved
    <3> QED BY <3>3, <3>4
  <2> QED BY <2>1, <2>2
<1>8. ASSUME Done(a)
      PROVE  \E r \in Places : Fine(r)
  <2>1. Idle.at # "shrink"
    BY DEF Idle
  <2> QED BY <1>1, <1>2, <1>8, <2>1
<1>9. ASSUME ValidateFails(a) \/ CheckNew(a) \/ CheckUnused(a) \/ SetSources(a)
      PROVE  \E r \in Places : Fine(r)
  <2>1. CASE Done(a)
    BY <1>8, <2>1
  <2>2. CASE \E l \in {"append", "remove"} : Goto(a, l) /\ w.at \in Editing
    BY <1>4, <2>2 DEF Labels, Editing
  <2> QED BY <1>9, <2>1, <2>2 DEF ValidateFails, CheckNew, CheckUnused, SetSources, At, Editing
<1>10. ASSUME AddSource(a)
       PROVE  \E r \in Places : Fine(r)
  <2>1. CASE w.at = "append"
    <3>1. work' = [work EXCEPT ![a].at = "add", ![a].list = sources]
      BY <1>10, <2>1 DEF AddSource, At
    <3>2. \E r \in Places : Moved(r) /\ r.at = "add" /\ r.src = w.src /\ r.list = sources
      BY <1>0, <1>5, <2>1, <3>1 DEF Editing
    <3> QED BY <2>1, <3>2 DEF Editing
  <2>2. CASE w.at # "append"
    <3>1. Goto(a, "save") /\ w.at = "add"
      BY <1>10, <2>2 DEF AddSource, At
    <3> QED BY <1>4, <3>1 DEF Labels, Editing
  <2> QED BY <2>1, <2>2
<1>11. ASSUME RemoveSource(a)
       PROVE  \E r \in Places : Fine(r)
  <2>1. CASE w.at = "remove" /\ w.index \in DOMAIN sources
    <3> DEFINE t == Shifted(sources, w.index)
    <3>1. work' = [work EXCEPT ![a].at = "shrink", ![a].list = sources'] /\ sources' = t
      BY <1>11, <2>1 DEF RemoveSource, At
    <3>2. t \in Seq(Sources)
      BY <1>0, <2>1, Shifting
    <3> HIDE DEF t
    <3>3. \E r \in Places : Moved(r) /\ r.at = "shrink" /\ r.src = w.src /\ r.list = t
      BY <1>5, <2>1, <3>1, <3>2 DEF Editing
    <3> QED BY <2>1, <3>3 DEF Editing, t
  <2>2. CASE Done(a)
    BY <1>8, <2>2
  <2>3. CASE w.at = "shrink" /\ Goto(a, "drop")
    BY <1>4, <2>3 DEF Labels, Editing
  <2> QED BY <1>11, <2>1, <2>2, <2>3 DEF RemoveSource, At
<1>12. ASSUME Save(a)
       PROVE  \E r \in Places : Fine(r)
  <2>1. PICK l \in {"setAdded", "setDropped"} :
          work' = [work EXCEPT ![a].at = l, ![a].list = sources] /\ w.at \in {"save", "drop"}
    BY <1>0, <1>12 DEF Save
  <2>2. \E r \in Places : Moved(r) /\ r.at = l /\ r.src = w.src /\ r.list = sources
    <3>1. l \in Editing /\ w.at \in Editing
      BY <2>1 DEF Editing
    <3> QED BY <1>0, <1>5, <2>1, <3>1
  <2> QED BY <2>1, <2>2 DEF Editing
<1>13. PICK r \in Places : Fine(r)
  BY <1>6, <1>7, <1>9, <1>10, <1>11, <1>12 DEF Edit
<1>14. work' = [work EXCEPT ![a] = r]
  BY <1>13 DEF Moved
<1> QED BY <1>0, <1>13, <1>14

(* Adding and removing a source keep the types.                              *)
LEMMA EditTypes ==
  ASSUME Types, AdminInv, NEW a \in Admins, Edit(a), UNCHANGED Rest
  PROVE  Types'
<1> USE DEF Types
<1> DEFINE w == work[a]
<1>0. /\ work \in [Actors -> Places] /\ w \in Places /\ w.list \in Seq(Sources)
      /\ sources \in Seq(Sources) /\ saved \in Seq(Sources) /\ relied \subseteq Sources
      /\ crossed \in BOOLEAN
  BY EditMoves DEF WorkTypes, ListTypes, Places
<1>1. JobTypes' /\ AnswerTypes' /\ UNCHANGED <<check, snapshot>>
  BY DEF Rest, jobVars, viewVars, JobTypes, AnswerTypes
<1>2. ASSUME left' \in Lefts, UNCHANGED <<published, listing, pup>>, crossed' \in BOOLEAN,
             sources' \in Seq(Sources), saved' \in Seq(Sources), relied' \subseteq Sources
      PROVE  Types'
  BY <1>1, <1>2, EditMoves DEF ListTypes, PupTypes, WorkTypes
<1>3. left' \in Lefts
  <2>1. left' = left => left' \in Lefts
    BY DEF WorkTypes
  <2>2. ASSUME NEW s \in Sources, PutSource(a, s) \/ DeleteSource(a, s) PROVE left' \in Lefts
    BY <2>2, Spends DEF PutSource, DeleteSource
  <2>3. ValidateFails(a) => left' \in Lefts
    BY Spends DEF ValidateFails, Trouble
  <2>4. SetSources(a) => left' \in Lefts
    BY <2>1, Spends DEF SetSources, Trouble
  <2>5. CheckNew(a) \/ AddSource(a) \/ CheckUnused(a) \/ RemoveSource(a) \/ Save(a) => left' = left
    BY DEF CheckNew, AddSource, CheckUnused, RemoveSource, Save
  <2> QED BY <2>1, <2>2, <2>3, <2>4, <2>5 DEF Edit
<1>4. ASSUME NEW s \in Sources, PutSource(a, s) \/ DeleteSource(a, s) PROVE Types'
  BY <1>0, <1>2, <1>3, <1>4 DEF PutSource, DeleteSource, sourceVars
<1>5. CASE ValidateFails(a) \/ CheckNew(a) \/ CheckUnused(a) \/ Save(a)
  BY <1>0, <1>2, <1>3, <1>5 DEF ValidateFails, CheckNew, CheckUnused, Save, sourceVars
<1>6. CASE AddSource(a)
  <2>1. w.src \in Sources
    BY <1>6 DEF AddSource, AdminInv, At, Editing
  <2>2. Append(w.list, w.src) \in Seq(Sources)
    BY <1>0, <2>1
  <2>3. sources' \in Seq(Sources) /\ crossed' \in BOOLEAN
    BY <1>0, <1>6, <2>2 DEF AddSource, Overwrites
  <2> QED BY <1>0, <1>2, <1>3, <1>6, <2>3 DEF AddSource
<1>7. CASE RemoveSource(a)
  <2>1. w.index \in DOMAIN sources => Shifted(sources, w.index) \in Seq(Sources)
    BY <1>0, Shifting
  <2>2. Front(w.list) \in Seq(Sources)
    BY <1>0, FrontType
  <2>3. sources' \in Seq(Sources) /\ crossed' \in BOOLEAN /\ relied' \subseteq Sources
    BY <1>0, <1>7, <2>1, <2>2 DEF RemoveSource, Overwrites
  <2> QED BY <1>0, <1>2, <1>3, <1>7, <2>3 DEF RemoveSource
<1>8. CASE SetSources(a)
  <2>1. w.src \in Sources
    BY <1>8 DEF SetSources, AdminInv, Editing
  <2>2. saved' \in Seq(Sources) /\ relied' \subseteq Sources /\ crossed' \in BOOLEAN
    BY <1>0, <1>8, <2>1 DEF SetSources, Answered, Overwrites
  <2> QED BY <1>0, <1>2, <1>3, <1>8, <2>2 DEF SetSources
<1> QED BY <1>4, <1>5, <1>6, <1>7, <1>8 DEF Edit

(* A crash and a release keep the types.                                     *)
LEMMA OutsideTypes ==
  ASSUME Types, Crash \/ (UNCHANGED Rest /\ \E s \in Sources : Publish(s))
  PROVE  Types'
<1> USE DEF Types
<1>1. CASE Crash
  <2>1. left' \in Lefts
    BY <1>1, Spends DEF Crash, Trouble
  <2>2. work' \in [Actors -> Places] /\ check' \in [Checkers -> Checks]
    BY <1>1, Blanks DEF Crash
  <2>3. JobTypes'
    BY <1>1, Blanks DEF Crash, JobTypes
  <2>4. 0 \in 0..MaxEvents
    BY UpdatesAssumption
  <2>5. AnswerTypes'
    BY <1>1, <2>4 DEF Crash, AnswerTypes
  <2>6. ListTypes'
    BY <1>1 DEF Crash, ListTypes
  <2> QED BY <1>1, <2>1, <2>2, <2>3, <2>5, <2>6 DEF Crash, PupTypes, WorkTypes
<1>2. ASSUME NEW s \in Sources, Publish(s), UNCHANGED Rest
      PROVE  Types'
  <2>1. published[s] \in 0..Tops[s] /\ Tops[s] \in Nat /\ published \in [Sources -> Nat]
    BY VersionsOfSource DEF ListTypes
  <2>2. published[s] + 1 \in 0..Tops[s]
    BY <1>2, <2>1 DEF Publish
  <2>3. published' \in [Sources -> Nat] /\ \A t \in Sources : published'[t] \in 0..Tops[t]
    BY <1>2, <2>1, <2>2 DEF Publish, ListTypes
  <2> QED BY <1>2, <2>3 DEF Publish, Rest, jobVars, viewVars, ListTypes, PupTypes, WorkTypes,
                            JobTypes, AnswerTypes
<1> QED BY <1>1, <1>2

-----------------------------------------------------------------------------
(* Every step keeps the types.                                               *)
LEMMA StepTypes == Types /\ AdminInv /\ [Next]_vars => Types'
<1> SUFFICES ASSUME Types, AdminInv, [Next]_vars PROVE Types'
  OBVIOUS
<1>1. {"loop", "periodic", "done", "store", "updater"} \subseteq Actors
      /\ Checkers = {"periodic", "done", "loop"}
  BY Blanks DEF Checkers
<1>2. CASE Loop
  BY <1>1, <1>2, DispatchTypes, LoopTypes, ListingTypes, CheckingTypes DEF Loop
<1>3. CASE Periodic \/ AfterJob
  BY <1>1, <1>3, LoopTypes, ListingTypes, CheckingTypes DEF Periodic, AfterJob
<1>4. CASE SaveCleared \/ Fetch
  BY <1>4, LoopTypes
<1>5. CASE Store \/ RequestJob \/ RefreshStore
  BY <1>1, <1>5, RequestTypes, ListingTypes DEF Store
<1>6. CASE UpdaterNext
  BY <1>1, <1>6, TakeJobTypes, UpdaterTypes, ListingTypes DEF UpdaterNext
<1>7. CASE Crash \/ (((\E a \in Admins : Edit(a)) \/ \E s \in Sources : Publish(s)) /\ UNCHANGED Rest)
  BY <1>7, OutsideTypes, EditTypes
<1>8. CASE UNCHANGED vars
  BY <1>8 DEF vars, sourceVars, jobVars, viewVars, Types, ListTypes, PupTypes, WorkTypes, JobTypes,
              AnswerTypes
<1> QED BY <1>2, <1>3, <1>4, <1>5, <1>6, <1>7, <1>8 DEF Next

-----------------------------------------------------------------------------
Untouched ==
  UNCHANGED <<sources, saved, relied, crossed>> /\ \A a \in Admins : work'[a] = work[a]

(* The list of sources belongs to the requests that edit it: nothing else    *)
(* touches it, or the place such a request is at.                            *)
LEMMA AdminsOwn ==
  ASSUME WorkTypes,
         Loop \/ Periodic \/ AfterJob \/ SaveCleared \/ Store \/ UpdaterNext \/ Fetch
           \/ RequestJob \/ RefreshStore
  PROVE  Untouched
<1>0. work \in [Actors -> Places] /\ Admins \subseteq Actors
  /\ \A b \in {"periodic", "done", "clear", "store", "updater", "loop"} : b \notin Admins
  BY Blanks, UpdatesAssumption DEF WorkTypes
<1>1. ASSUME NEW a, a \notin Admins, Listing(a)
      PROVE  Untouched
  BY <1>0, <1>1 DEF Listing, ListCached, ListDirectory, ListTags, ListClone, ListFails, Listed, Goto,
                    sourceVars, Untouched
<1>2. ASSUME NEW c, c \notin Admins, Checking(c)
      PROVE  Untouched
  <2>1. ASSUME NEW p \in Pups, CheckPup(c, p)
        PROVE  Untouched
    BY <1>0, <1>2, <2>1 DEF CheckPup, sourceVars, Untouched
  <2>2. CASE CheckFails(c) \/ WriteCache(c) \/ CheckEnds(c) \/ EmitEvent(c)
    BY <1>0, <1>2, <2>2 DEF CheckFails, WriteCache, CheckEnds, EmitEvent, Goto, Done, sourceVars, Untouched
  <2> QED BY <1>2, <2>1, <2>2 DEF Checking
<1>3. CASE Loop
  <2>1. CASE Dispatch
    BY <1>0, <2>1 DEF Dispatch, StartCheck, sourceVars, Untouched
  <2>2. CASE AdoptPup
    BY <1>0, <2>2 DEF AdoptPup, Done, sourceVars, Untouched
  <2>3. CASE CompleteJob
    BY <1>0, <2>3 DEF CompleteJob, StartCheck, sourceVars, Untouched
  <2>4. CASE ReadEvent
    BY <2>4 DEF ReadEvent, sourceVars, Untouched
  <2> QED BY <1>0, <1>1, <1>2, <1>3, <2>1, <2>2, <2>3, <2>4 DEF Loop
<1>4. CASE Periodic \/ AfterJob
  BY <1>0, <1>1, <1>2, <1>4 DEF Periodic, AfterJob, PeriodicCheck, StartCheck, sourceVars, Untouched
<1>5. CASE SaveCleared \/ Fetch \/ RequestJob \/ RefreshStore
  BY <1>0, <1>5 DEF SaveCleared, Fetch, RequestJob, RefreshStore, Done, sourceVars, Untouched
<1>6. CASE Store
  BY <1>0, <1>1, <1>6 DEF Store, StoreSource, Done, sourceVars, Untouched
<1>7. CASE UpdaterNext
  <2>1. CASE TakeJob
    BY <1>0, <2>1 DEF TakeJob, List, sourceVars, Untouched
  <2>2. CASE BumpVersion
    BY <1>0, <2>2 DEF BumpVersion, Goto, sourceVars, Untouched
  <2>3. CASE Download \/ Place \/ FinishJob
    BY <1>0, <2>3 DEF Download, List, Place, FinishJob, Goto, Done, sourceVars, Untouched
  <2> QED BY <1>0, <1>1, <1>7, <2>1, <2>2, <2>3 DEF UpdaterNext
<1> QED BY <1>3, <1>4, <1>5, <1>6, <1>7

(* An edit keeps AdminInv: unless it overwrites another, what it stores was  *)
(* made from the list that is there, and it loses only what it removes.      *)
LEMMA EditStep ==
  ASSUME Types, AdminInv, NEW a \in Admins, Edit(a)
  PROVE  AdminInv'
<1> DEFINE w == work[a]
           Kept == crossed \/ relied \subseteq Range(sources) \cap Range(saved)
<1>0. /\ work \in [Actors -> Places] /\ w \in Places /\ w.list \in Seq(Sources)
      /\ sources \in Seq(Sources) /\ saved \in Seq(Sources) /\ relied \subseteq Sources /\ Kept
  BY EditMoves DEF Types, WorkTypes, ListTypes, Places, AdminInv
<1>1. crossed => crossed'
  <2>1. ASSUME NEW s \in Sources, PutSource(a, s) \/ DeleteSource(a, s) PROVE crossed' = crossed
    BY <2>1 DEF PutSource, DeleteSource, sourceVars
  <2>2. CASE ValidateFails(a) \/ CheckNew(a) \/ CheckUnused(a) \/ Save(a)
    BY <2>2 DEF ValidateFails, CheckNew, CheckUnused, Save, sourceVars
  <2>3. CASE AddSource(a) \/ RemoveSource(a) \/ SetSources(a)
    BY <2>3 DEF AddSource, RemoveSource, SetSources, Overwrites
  <2> QED BY <2>1, <2>2, <2>3 DEF Edit
<1>2. ASSUME Kept'
      PROVE  AdminInv'
  <2>1. ASSUME NEW b \in Admins
        PROVE  /\ work'[b].at \in Editing => work'[b].src \in Sources
               /\ work'[b].at = "shrink" =>
                    crossed' \/ Range(work'[b].list) \ {work'[b].src} \subseteq Range(Front(work'[b].list))
    <3>1. CASE b # a
      <4>1. work'[b] = work[b]
        BY <3>1, EditMoves, Blanks
      <4> QED BY <1>1, <4>1 DEF AdminInv
    <3>2. CASE b = a
      <4>1. work'[a].at \in Editing => work'[a].src \in Sources
        BY EditMoves DEF AdminInv
      <4>2. CASE work'[a].at = "shrink"
        <5>1. /\ w.at = "remove" /\ w.index \in DOMAIN sources /\ work'[a].src = w.src
              /\ work'[a].list = Shifted(sources, w.index)
          BY <4>2, EditMoves
        <5>2. RemoveSource(a)
          BY <5>1 DEF Edit, PutSource, DeleteSource, ValidateFails, CheckNew, AddSource, CheckUnused, Save,
                      SetSources, At
        <5>3. crossed' \/ sources[w.index] = w.src
          BY <5>1, <5>2 DEF RemoveSource, At
        <5> DEFINE t == Shifted(sources, w.index)
        <5>4. Range(t) \subseteq Range(sources) /\ Range(sources) \ {sources[w.index]} \subseteq Range(Front(t))
          BY <1>0, <5>1, Shifting
        <5> HIDE DEF t
        <5>5. work'[a].list = t
          BY <5>1 DEF t
        <5> QED BY <3>2, <4>1, <5>1, <5>3, <5>4, <5>5
      <4> QED BY <3>2, <4>1, <4>2
    <3> QED BY <3>1, <3>2
  <2> QED BY <1>2, <2>1 DEF AdminInv
<1>3. ASSUME NEW s \in Sources, PutSource(a, s) \/ DeleteSource(a, s)
      PROVE  Kept'
  BY <1>0, <1>3 DEF PutSource, DeleteSource, sourceVars
<1>4. ASSUME ValidateFails(a) \/ CheckNew(a) \/ CheckUnused(a) \/ Save(a)
      PROVE  Kept'
  BY <1>0, <1>4 DEF ValidateFails, CheckNew, CheckUnused, Save, sourceVars
<1>5. ASSUME AddSource(a)
      PROVE  Kept'
  <2>1. UNCHANGED <<saved, relied>>
    BY <1>5 DEF AddSource
  <2>2. CASE sources' = sources /\ crossed' = crossed
    BY <1>0, <2>1, <2>2
  <2>3. CASE sources' = Append(w.list, w.src) /\ Overwrites(a)
    <3>1. CASE sources = w.list
      <4>1. /\ DOMAIN Append(sources, w.src) = 1..(Len(sources) + 1) /\ Len(sources) \in Nat
            /\ DOMAIN sources = 1..Len(sources)
            /\ \A k \in 1..Len(sources) : Append(sources, w.src)[k] = sources[k]
        BY <1>0
      <4>2. DOMAIN sources \subseteq DOMAIN Append(sources, w.src)
        BY <4>1
      <4>3. Range(sources) \subseteq Range(Append(sources, w.src))
        BY <4>1, <4>2 DEF Range
      <4>4. sources' = Append(sources, w.src)
        BY <2>3, <3>1
      <4>5. Range(sources) \subseteq Range(sources')
        BY <4>3, <4>4
      <4>6. crossed' = crossed
        BY <2>3, <3>1 DEF Overwrites, Types, ListTypes
      <4> QED BY <1>0, <2>1, <4>5, <4>6
    <3>2. CASE sources # w.list
      BY <2>3, <3>2 DEF Overwrites
    <3> QED BY <3>1, <3>2
  <2> QED BY <1>5, <2>2, <2>3 DEF AddSource
<1>6. ASSUME RemoveSource(a)
      PROVE  Kept'
  <2>1. relied' = relied \ {w.src} /\ saved' = saved
    BY <1>6 DEF RemoveSource
  <2>2. CASE w.at = "remove" /\ w.index \in DOMAIN sources
    <3> DEFINE t == Shifted(sources, w.index)
    <3>1. sources' = t /\ (crossed' \/ (~crossed /\ sources[w.index] = w.src))
      BY <1>6, <2>2 DEF RemoveSource, At
    <3>2. Range(sources) \ {sources[w.index]} \subseteq Range(t)
      BY <1>0, <2>2, Shifting
    <3> HIDE DEF t
    <3>3. Range(sources') = Range(t)
      BY <3>1
    <3> QED BY <1>0, <2>1, <3>1, <3>2, <3>3
  <2>3. CASE w.at = "shrink"
    <3>1. sources' = Front(w.list) /\ Overwrites(a)
      BY <1>6, <2>3 DEF RemoveSource, At
    <3>2. Range(sources') = Range(Front(w.list)) /\ (crossed' \/ (~crossed /\ sources = w.list))
      BY <3>1 DEF Overwrites
    <3>3. crossed \/ Range(w.list) \ {w.src} \subseteq Range(Front(w.list))
      BY <2>3 DEF AdminInv
    <3> QED BY <1>0, <2>1, <3>2, <3>3
  <2>4. CASE UNCHANGED <<sources, crossed>>
    BY <1>0, <2>1, <2>4
  <2> QED BY <1>6, <2>2, <2>3, <2>4 DEF RemoveSource, At
<1>7. ASSUME SetSources(a)
      PROVE  Kept'
  <2>1. sources' = sources
    BY <1>7 DEF SetSources
  <2>2. CASE saved' = w.list /\ Overwrites(a) /\ Answered(a)
    <3>1. relied' \subseteq relied \cup (Range(sources) \cap {w.src})
      BY <2>2 DEF Answered, GetSource
    <3>2. crossed' \/ (~crossed /\ sources = w.list)
      BY <2>2 DEF Overwrites
    <3> QED BY <1>0, <2>1, <2>2, <3>1, <3>2
  <2>3. CASE UNCHANGED <<saved, relied, crossed>>
    BY <1>0, <2>1, <2>3
  <2> QED BY <1>7, <2>2, <2>3 DEF SetSources
<1> QED BY <1>2, <1>3, <1>4, <1>5, <1>6, <1>7 DEF Edit

(* Every step keeps AdminInv; a crash puts the saved list back, which holds  *)
(* all that is relied on.                                                    *)
LEMMA StepAdmin == Types /\ AdminInv /\ [Next]_vars => AdminInv'
<1> SUFFICES ASSUME Types, AdminInv, [Next]_vars PROVE AdminInv'
  OBVIOUS
<1>1. ASSUME Untouched
      PROVE  AdminInv'
  BY <1>1 DEF AdminInv, Untouched
<1>2. CASE Loop \/ Periodic \/ AfterJob \/ SaveCleared \/ Store \/ UpdaterNext \/ Fetch
             \/ RequestJob \/ RefreshStore
  BY <1>1, <1>2, AdminsOwn DEF Types
<1>3. CASE Crash
  <2>1. \A a \in Admins : work'[a].at = "idle"
    BY <1>3, Blanks DEF Crash, Idle
  <2>2. sources' = saved /\ UNCHANGED <<saved, relied, crossed>>
    BY <1>3 DEF Crash
  <2> QED BY <2>1, <2>2 DEF AdminInv, Editing
<1>4. ASSUME NEW a \in Admins, Edit(a)
      PROVE  AdminInv'
  BY <1>4, EditStep
<1>5. ASSUME NEW s \in Sources, Publish(s)
      PROVE  AdminInv'
  BY <1>1, <1>5 DEF Publish, Untouched
<1>6. CASE UNCHANGED vars
  BY <1>1, <1>6 DEF vars, sourceVars, Untouched
<1> QED BY <1>2, <1>3, <1>4, <1>5, <1>6 DEF Next

(* AdminInv holds at the start, where the list is the saved one.             *)
LEMMA InitAdmin == Init => AdminInv
<1> SUFFICES ASSUME Init PROVE AdminInv
  OBVIOUS
<1>1. \A a \in Admins : work[a].at = "idle"
  BY Blanks DEF Init, Idle
<1>2. relied = Range(sources) /\ saved = sources
  BY DEF Init
<1> QED BY <1>1, <1>2 DEF AdminInv, Editing

-----------------------------------------------------------------------------
Emitting == \E c \in Checkers : At(c, "emit")

(* Only EmitEvent, and the death of the process, take a check away from the  *)
(* place where it emits its event.                                           *)
EmitsStay == \A c \in Checkers : At(c, "emit") => At(c, "emit")'

(* Listing a source moves no check that is about to emit its event.          *)
LEMMA ListingStays ==
  ASSUME WorkTypes, NEW a, Listing(a)
  PROVE  EmitsStay /\ UNCHANGED <<cache, viewVars>>
<1>0. work \in [Actors -> Places] /\ Checkers \subseteq Actors
  BY Blanks DEF WorkTypes
<1>1. work[a].at # "emit" /\ \A c \in Checkers : c # a => work'[c] = work[c]
  BY <1>0 DEF Listing, ListCached, ListDirectory, ListTags, ListClone, ListFails, Listed, Goto, At
<1> QED BY <1>1 DEF EmitsStay, At, Listing, Rest

(* Nor do the steps of a check, except the one that writes its answer and    *)
(* the one that emits.                                                       *)
LEMMA CheckingStays ==
  ASSUME WorkTypes, NEW c, Checking(c)
  PROVE  (EmitsStay /\ UNCHANGED <<cache, viewVars>>) \/ WriteCache(c) \/ EmitEvent(c)
<1>0. work \in [Actors -> Places] /\ Checkers \subseteq Actors
  BY Blanks DEF WorkTypes
<1>1. ASSUME NEW p \in Pups, CheckPup(c, p)
      PROVE  EmitsStay /\ UNCHANGED <<cache, viewVars>>
  BY <1>0, <1>1 DEF CheckPup, EmitsStay, At
<1>2. CASE CheckFails(c) \/ CheckEnds(c)
  BY <1>0, <1>2 DEF CheckFails, CheckEnds, Goto, Done, EmitsStay, At
<1> QED BY <1>1, <1>2 DEF Checking

(* Nor does anything else; and besides checks only ClearCacheEntry touches   *)
(* the cache, to remove an answer.                                           *)
LEMMA OthersStay ==
  ASSUME WorkTypes, cache \in [Pups -> Offers],
         \/ Dispatch \/ AdoptPup \/ CompleteJob \/ PeriodicCheck \/ SaveCleared
         \/ RequestJob \/ RefreshStore \/ StoreSource
         \/ TakeJob \/ BumpVersion \/ Download \/ Place \/ FinishJob
         \/ ((\E s \in Sources : Publish(s)) /\ UNCHANGED Rest)
  PROVE  EmitsStay /\ UNCHANGED viewVars /\ \A p \in Pups : cache[p]' \in {cache[p], NoEntry}
<1>0. /\ work \in [Actors -> Places] /\ Checkers \subseteq Actors
      /\ {"store", "updater", "clear"} \cap Checkers = {}
      /\ {"loop", "done", "periodic"} \subseteq Actors
  BY Blanks DEF WorkTypes, Checkers
<1>1. CASE Dispatch
  BY <1>0, <1>1 DEF Dispatch, StartCheck, EmitsStay, At
<1>2. CASE AdoptPup \/ PeriodicCheck
  BY <1>0, <1>2 DEF AdoptPup, PeriodicCheck, StartCheck, Done, EmitsStay, At
<1>3. CASE CompleteJob
  <2>1. UNCHANGED viewVars
    BY <1>3 DEF CompleteJob
  <2>2. EmitsStay
    BY <1>0, <1>3 DEF CompleteJob, StartCheck, EmitsStay, At
  <2>3. cache' = cache \/ \E q : cache' = [cache EXCEPT ![q] = NoEntry]
    BY <1>3 DEF CompleteJob, ClearEntry
  <2> QED BY <2>1, <2>2, <2>3
<1>4. CASE SaveCleared \/ RequestJob \/ RefreshStore \/ StoreSource
  BY <1>0, <1>4 DEF SaveCleared, RequestJob, RefreshStore, StoreSource, Done, EmitsStay, At
<1>5. CASE BumpVersion
  <2>1. UNCHANGED viewVars
    BY <1>5 DEF BumpVersion
  <2>2. EmitsStay
    BY <1>0, <1>5 DEF BumpVersion, Goto, EmitsStay, At
  <2>3. cache' = cache \/ \E q : cache' = [cache EXCEPT ![q] = NoEntry]
    BY <1>5 DEF BumpVersion, ClearEntry
  <2> QED BY <2>1, <2>2, <2>3
<1>6. CASE TakeJob \/ Download
  BY <1>0, <1>6 DEF TakeJob, Download, List, EmitsStay, At
<1>7. CASE Place \/ FinishJob
  BY <1>0, <1>7 DEF Place, FinishJob, Goto, Done, EmitsStay, At
<1>8. CASE UNCHANGED Rest /\ \E s \in Sources : Publish(s)
  BY <1>8 DEF Publish, EmitsStay, At, Rest
<1> QED BY <1>1, <1>2, <1>3, <1>4, <1>5, <1>6, <1>7, <1>8

(* Every step keeps NoMissedRefresh.                                         *)
LEMMA StepTold == Types /\ NoMissedRefresh /\ [Next]_vars => NoMissedRefresh'
<1> SUFFICES ASSUME Types, NoMissedRefresh, [Next]_vars PROVE NoMissedRefresh'
  OBVIOUS
<1>0. /\ WorkTypes /\ work \in [Actors -> Places] /\ Checkers \subseteq Actors
      /\ cache \in [Pups -> Offers] /\ events \in 0..MaxEvents /\ MaxEvents \in Nat \ {0}
  BY Blanks, UpdatesAssumption DEF Types, WorkTypes, AnswerTypes
<1>1. ASSUME EmitsStay, UNCHANGED viewVars, \A p \in Pups : cache[p]' \in {cache[p], NoEntry}
      PROVE  NoMissedRefresh'
  BY <1>1 DEF NoMissedRefresh, EmitsStay, At, viewVars
<1>2. ASSUME EmitsStay, UNCHANGED <<cache, viewVars>>
      PROVE  NoMissedRefresh'
  BY <1>1, <1>2
<1>3. ASSUME NEW c \in Checkers, Checking(c)
      PROVE  NoMissedRefresh'
  <2>1. CASE WriteCache(c)
    <3>1. work'[c].at = "emit"
      BY <1>0, <2>1 DEF WriteCache, Idle
    <3> QED BY <3>1 DEF NoMissedRefresh, At
  <2>2. CASE EmitEvent(c)
    <3>1. events' > 0
      BY <1>0, <2>2 DEF EmitEvent, Emitted
    <3> QED BY <3>1 DEF NoMissedRefresh
  <2> QED BY <1>0, <1>2, <1>3, <2>1, <2>2, CheckingStays
<1>4. ASSUME NEW a, Listing(a)
      PROVE  NoMissedRefresh'
  BY <1>0, <1>2, <1>4, ListingStays
<1>5. CASE Loop
  <2>1. CASE ReadEvent
    BY <2>1 DEF ReadEvent, NoMissedRefresh
  <2> QED BY <1>0, <1>1, <1>3, <1>4, <1>5, <2>1, OthersStay DEF Loop, Checkers
<1>6. CASE Periodic \/ AfterJob
  BY <1>0, <1>1, <1>3, <1>4, <1>6, OthersStay DEF Periodic, AfterJob, Checkers
<1>7. CASE Store \/ UpdaterNext \/ SaveCleared \/ RequestJob \/ RefreshStore
  BY <1>0, <1>1, <1>4, <1>7, OthersStay DEF Store, UpdaterNext
<1>8. CASE Fetch \/ Crash
  BY <1>8 DEF Fetch, Crash, NoMissedRefresh
<1>9. CASE ((\E a \in Admins : Edit(a)) \/ \E s \in Sources : Publish(s)) /\ UNCHANGED Rest
  <2>1. ASSUME NEW a \in Admins, Edit(a), UNCHANGED Rest
        PROVE  EmitsStay /\ UNCHANGED <<cache, viewVars>>
    <3>1. \A c \in Checkers : c # a
      BY UpdatesAssumption DEF Checkers
    <3>2. \A c \in Checkers : work'[c] = work[c]
      BY <1>0, <2>1, <3>1, EditMoves
    <3> QED BY <2>1, <3>2 DEF EmitsStay, At, Rest
  <2>2. CASE (\E s \in Sources : Publish(s)) /\ UNCHANGED Rest
    BY <1>0, <1>1, <2>2, OthersStay
  <2> QED BY <1>2, <1>9, <2>1, <2>2
<1>10. CASE UNCHANGED vars
  <2>1. EmitsStay /\ UNCHANGED <<cache, viewVars>>
    BY <1>10 DEF vars, viewVars, EmitsStay, At
  <2> QED BY <1>2, <2>1
<1> QED BY <1>5, <1>6, <1>7, <1>8, <1>9, <1>10 DEF Next

(* The types the proof uses imply those the run checks.                      *)
LEMMA TypesSuffice == Types => TypeOK
<1> SUFFICES ASSUME Types PROVE TypeOK
  OBVIOUS
<1>1. Range(sources) \subseteq Sources /\ Range(saved) \subseteq Sources
  BY RangeTypes DEF Types, ListTypes
<1>2. \A a \in Actors : work[a].got \subseteq Versions
  BY DEF Types, WorkTypes, Places
<1>3. SourcesTypeOK
  BY <1>1, <1>2 DEF SourcesTypeOK, Types, ListTypes, PupTypes
<1>4. \A p \in Pups : /\ {cache[p], seen[p], disk[p]} \subseteq Entries
                       /\ \A v \in cache[p].avail : v > cache[p].cur
  BY DEF Types, AnswerTypes, Offers
<1>5. events \in 0..MaxEvents /\ snapshot \in [Pups -> Versions \cup {0}]
  BY DEF Types, AnswerTypes, PupTypes, Numbers
<1> QED BY <1>3, <1>4, <1>5 DEF TypeOK

(* The strengthened invariant: in every reachable state the variables have   *)
(* their types and AdminInv holds.                                           *)
THEOREM UpdatesInvariance == Spec => [](Types /\ AdminInv)
<1>1. Init => Types /\ AdminInv
  BY InitTypes, InitAdmin
<1>2. Types /\ AdminInv /\ [Next]_vars => (Types /\ AdminInv)'
  BY StepTypes, StepAdmin
<1> QED BY <1>1, <1>2, PTL DEF Spec

(* TypeOK, for all values of the constants: an answer only ever offers       *)
(* versions newer than the one it is about.                                  *)
THEOREM TypeCorrect == Spec => []TypeOK
BY UpdatesInvariance, TypesSuffice, PTL

(* A source whose addition was answered with success stays among the saved   *)
(* ones until a request removes it, whatever fails or crashes, as long as no *)
(* edit of the list overwrites another.                                      *)
THEOREM SavedSources == Spec => []AddedStaysSaved
<1>1. AdminInv => AddedStaysSaved
  BY DEF AdminInv, AddedStaysSaved
<1> QED BY <1>1, UpdatesInvariance, PTL

(* The frontend is never left behind an answer with nothing on its way to    *)
(* tell it, unless the relay was stuck: emitEvent may drop an event only when *)
(* the channel holds one already.                                            *)
THEOREM Told == Spec => []NoMissedRefresh
<1>1. Init => NoMissedRefresh
  BY DEF Init, NoMissedRefresh, NoAnswers
<1>2. Types /\ NoMissedRefresh /\ [Next]_vars => NoMissedRefresh'
  BY StepTold
<1> QED BY <1>1, <1>2, UpdatesInvariance, PTL DEF Spec
=============================================================================
