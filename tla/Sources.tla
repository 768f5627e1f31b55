------------------------------ MODULE Sources ------------------------------
(***************************************************************************)
(* The sources pups come from (pkg/sources): the list the SourceManager    *)
(* keeps in memory and saves, the listing each git source caches, and the  *)
(* requests that add and remove a source, several at a time: the frontend, *)
(* dbx-dev and others send them.  The list and the listings have no lock;  *)
(* an edit reads the list and stores the new one, and then once more for   *)
(* the saved one.  A goroutine that lists a source reads its tags, clones  *)
(* them and only then replaces the cached listing.                         *)
(*                                                                         *)
(* A source holds one pup, in the versions published so far; a version is  *)
(* its place in the order of versions.  Tags and manifests that do not     *)
(* validate are no versions.  A source that is not a git source is a       *)
(* directory and is read on the spot.                                      *)
(***************************************************************************)
EXTENDS Naturals, Sequences, FiniteSets, SequencesExt

CONSTANTS Sources, Git,  \* the sources there are, and those that are git repositories
          Pups,          \* the pup IDs that can be drawn
          Tops,          \* Tops[s]: the newest version source s will ever have
          Actors,        \* the goroutines
          Admins,        \* those of them that edit the list of sources
          Budgets        \* bounds: how many jobs and changes of the sources are
                         \* requested, how much fails (deaths of the process too)

ASSUME SourcesAssumption ==
  /\ IsFiniteSet(Sources) /\ Git \subseteq Sources /\ Tops \in [Sources -> Nat \ {0}]
  /\ {"store", "updater", "loop"} \cup Admins \subseteq Actors
  /\ Budgets \subseteq [jobs : Nat, edits : Nat, trouble : Nat]

VARIABLES published,  \* upstream: the newest version of each source
          sources,    \* SourceManager.sources
          saved,      \* the source configurations the state manager has saved
          listing,    \* _cache of the git sources
          pup,        \* the version and the source of each pup; version 0: no pup
          work,       \* where each goroutine is
          relied,     \* history: the sources whose addition was answered OK
          crossed,    \* history: an edit has overwritten another
          left         \* what is left of the budget

sourceVars == <<published, sources, saved, listing, relied, crossed>>

Versions == 1..(CHOOSE n \in {Tops[s] : s \in Sources} : \A s \in Sources : Tops[s] <= n)
NoList == {0}
NoPup == [version |-> 0, source |-> "none"]
NoJob == [kind |-> "none", pup |-> "none", src |-> "none", to |-> 0]
Idle == [at |-> "idle", then |-> "idle", src |-> "none", got |-> {}, index |-> 0,
         list |-> <<>>, job |-> NoJob]

Goto(a, label) == work' = [work EXCEPT ![a].at = label]
Done(a) == work' = [work EXCEPT ![a] = Idle]
At(a, label) == work[a].at = label
Spend(kind) == left[kind] > 0 /\ left' = [left EXCEPT ![kind] = @ - 1]
Trouble == Spend("trouble")

GetSource(s) == s \in Range(sources)

(* A new release, or the first.                                              *)
Publish(s) ==
  /\ published[s] < Tops[s]
  /\ published' = [published EXCEPT ![s] = @ + 1]
  /\ UNCHANGED <<sources, saved, listing, pup, work, relied, crossed, left>>

-----------------------------------------------------------------------------
(* List.  A caller of List sets `src` and `then`; whoever continues at       *)
(* `then` finds the versions in `got`.                                       *)

Listed(a, versions) ==
  work' = [work EXCEPT ![a].at = work[a].then, ![a].got = versions]

(* What is answered without asking upstream: a cached listing, unless the    *)
(* caller ignores the cache, and directories.                                *)
ListCached(a) ==
  /\ At(a, "list") /\ work[a].src \in Git /\ listing[work[a].src] # NoList
  /\ Listed(a, listing[work[a].src])
  /\ UNCHANGED <<sourceVars, pup, left>>

ListDirectory(a) ==
  /\ work[a].at \in {"list", "relist"} /\ work[a].src \in Sources \ Git
  /\ Listed(a, 1..published[work[a].src])
  /\ UNCHANGED <<sourceVars, pup, left>>

ListTags(a) ==
  /\ work[a].at \in {"list", "relist"} /\ work[a].src \in Git
  /\ At(a, "list") => listing[work[a].src] = NoList
  /\ work' = [work EXCEPT ![a].at = "clone", ![a].got = 1..published[work[a].src]]
  /\ UNCHANGED <<sourceVars, pup, left>>

(* Every tag is cloned; one that cannot be cloned is left out.               *)
ListClone(a) ==
  /\ At(a, "clone")
  /\ \/ /\ listing' = [listing EXCEPT ![work[a].src] = work[a].got]
        /\ Goto(a, work[a].then) /\ UNCHANGED left
     \/ /\ Trouble
        /\ \E v \in work[a].got :
          /\ listing' = [listing EXCEPT ![work[a].src] = work[a].got \ {v}]
          /\ Listed(a, work[a].got \ {v})
  /\ UNCHANGED <<published, sources, saved, relied, crossed, pup>>

ListFails(a) ==
  /\ work[a].at \in {"list", "relist"} /\ Trouble
  /\ work' = [work EXCEPT ![a].at = "unlisted"]
  /\ UNCHANGED <<sourceVars, pup>>

-----------------------------------------------------------------------------
(* PUT and DELETE on /source.  The location is validated over the network    *)
(* before the list is looked at.                                             *)

PutSource(a, s) ==
  /\ Spend("edits") /\ At(a, "idle") /\ published[s] > 0
  /\ work' = [work EXCEPT ![a].at = "validate", ![a].src = s]
  /\ UNCHANGED <<sourceVars, pup>>

ValidateFails(a) ==
  /\ At(a, "validate") /\ Trouble /\ Done(a)
  /\ UNCHANGED <<sourceVars, pup>>

CheckNew(a) ==
  /\ At(a, "validate")
  /\ IF GetSource(work[a].src) THEN Done(a) ELSE Goto(a, "append")
  /\ UNCHANGED <<sourceVars, pup, left>>

(* What is stored was made from a list that is no longer the current one.    *)
Overwrites(a) == crossed' = (crossed \/ sources # work[a].list)

(* `append` reads the list, and the longer one is stored.                    *)
AddSource(a) ==
  /\ \/ /\ At(a, "append")
        /\ work' = [work EXCEPT ![a].at = "add", ![a].list = sources]
        /\ UNCHANGED <<sources, crossed>>
     \/ /\ At(a, "add") /\ Goto(a, "save")
        /\ sources' = Append(work[a].list, work[a].src) /\ Overwrites(a)
  /\ UNCHANGED <<published, saved, listing, relied, pup, left>>

(* The last source of that ID is matched.                                    *)
DeleteSource(a, s) ==
  /\ Spend("edits") /\ At(a, "idle")
  /\ IF GetSource(s)
       THEN \E i \in DOMAIN sources :
              /\ sources[i] = s /\ \A j \in DOMAIN sources : sources[j] = s => j <= i
              /\ work' = [work EXCEPT ![a].at = "unused", ![a].src = s, ![a].index = i]
       ELSE UNCHANGED work
  /\ UNCHANGED <<sourceVars, pup>>

InstalledFrom(s) == {p \in Pups : pup[p].version # 0 /\ pup[p].source = s}

CheckUnused(a) ==
  /\ At(a, "unused")
  /\ IF InstalledFrom(work[a].src) # {} THEN Done(a) ELSE Goto(a, "remove")
  /\ UNCHANGED <<sourceVars, pup, left>>

Shifted(list, i) == [j \in DOMAIN list |-> list[IF j < i \/ j = Len(list) THEN j ELSE j + 1]]

(* What comes after the source moves down within the list, and the shorter   *)
(* list is stored; an index beyond a list that others have shortened panics, *)
(* which ends the request.                                                   *)
RemoveSource(a) ==
  /\ \/ /\ At(a, "remove") /\ work[a].index \in DOMAIN sources
        /\ sources' = Shifted(sources, work[a].index)
        /\ work' = [work EXCEPT ![a].at = "shrink", ![a].list = sources']
        /\ crossed' = (crossed \/ sources[work[a].index] # work[a].src)
     \/ /\ At(a, "shrink") /\ Goto(a, "drop")
        /\ sources' = Front(work[a].list) /\ Overwrites(a)
     \/ /\ At(a, "remove") /\ work[a].index \notin DOMAIN sources /\ Done(a)
        /\ UNCHANGED <<sources, crossed>>
  /\ relied' = relied \ {work[a].src}
  /\ UNCHANGED <<published, saved, listing, pup, left>>

(* Save reads the configurations of the list in memory.                      *)
Save(a) ==
  /\ work[a].at \in {"save", "drop"}
  /\ work' = [work EXCEPT ![a].at = IF @ = "save" THEN "setAdded" ELSE "setDropped",
                          ![a].list = sources]
  /\ UNCHANGED <<sourceVars, pup, left>>

(* The request is answered with success; what has been removed again         *)
(* meanwhile is nothing to rely on.                                          *)
Answered(a) ==
  relied' = IF At(a, "setAdded") /\ GetSource(work[a].src) THEN relied \cup {work[a].src} ELSE relied

(* Mutant: the addition is answered before it is saved.                      *)
SetLater(a) ==
  /\ work[a].at \in {"setAdded", "setDropped"} /\ Done(a)
  /\ \/ /\ saved' = (IF At(a, "setAdded") THEN saved ELSE work[a].list)
        /\ Overwrites(a) /\ Answered(a) /\ UNCHANGED left
     \/ Trouble /\ UNCHANGED <<saved, relied, crossed>>
  /\ UNCHANGED <<published, sources, listing, pup>>

(* They become the saved ones.  A failure is answered, and leaves the list   *)
(* in memory as it is.                                                       *)
SetSources(a) ==
  /\ work[a].at \in {"setAdded", "setDropped"} /\ Done(a)
  /\ \/ saved' = work[a].list /\ Overwrites(a) /\ Answered(a) /\ UNCHANGED left
     \/ Trouble /\ UNCHANGED <<saved, relied, crossed>>
  /\ UNCHANGED <<published, sources, listing, pup>>

Edit(a) == \/ \E s \in Sources : PutSource(a, s) \/ DeleteSource(a, s)
           \/ ValidateFails(a) \/ CheckNew(a) \/ AddSource(a)
           \/ CheckUnused(a) \/ RemoveSource(a) \/ Save(a) \/ SetSources(a)

-----------------------------------------------------------------------------
SourcesTypeOK ==
  /\ \A s \in Sources : published[s] \in 0..Tops[s]
  /\ Range(sources) \cup Range(saved) \subseteq Sources
  /\ listing \in [Git -> {NoList} \cup SUBSET Versions]
  /\ \A p \in Pups : pup[p] = NoPup \/ (pup[p].version \in Versions /\ pup[p].source \in Sources)
  /\ relied \subseteq Sources
  /\ \A a \in Actors : work[a].got \subseteq Versions

(* A source whose addition was answered with success, and that no request    *)
(* has removed, is among the saved sources, whatever else is being added and *)
(* removed, whichever saves failed (pkg/sources/source.go); until an edit    *)
(* has stored or saved a list made from one that another edit has meanwhile  *)
(* replaced, or removed what another has put at its index.                   *)
AddedStaysSaved == crossed \/ relied \subseteq Range(saved)
=============================================================================
