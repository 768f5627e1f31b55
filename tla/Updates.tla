------------------------------ MODULE Updates ------------------------------
(***************************************************************************)
(* Which updates there are for the installed pups.  The UpdateChecker      *)
(* (pkg/pup/update_checker.go) keeps an answer per pup in a cache and in a *)
(* file.  It is asked by the periodic goroutine, by the main loop when a   *)
(* check is requested, and by a goroutine started when a job has changed a *)
(* pup; jobs that change a pup clear its answer.  The checks run at the    *)
(* same time as each other and as the jobs.  Events tell the frontend to   *)
(* read the cache again.  A save of the file is one step here.             *)
(***************************************************************************)
EXTENDS Sources

CONSTANTS MaxEvents,   \* capacity of the event channel (10 in the code)
          JobKinds     \* the jobs that are requested

ASSUME UpdatesAssumption ==
  /\ MaxEvents \in Nat \ {0} /\ {"periodic", "done", "clear"} \subseteq Actors
  /\ Admins \cap {"periodic", "done", "clear", "store", "updater", "loop"} = {}

VARIABLES cache,      \* updateCache
          disk,       \* pup-update-cache.json
          check,      \* what a goroutine that checks has in hand
          inbox,      \* requested jobs, on their way to the main loop
          jobq,       \* jobs for the SystemUpdater
          outcome,    \* the job it has just done
          snapshot,   \* the version a rollback restores
          events,     \* how many events wait in the channel
          pending,    \* the frontend has been told and has not read yet
          gaveUp,     \* the last event did not get through to the frontend
          seen        \* what the frontend shows

jobVars  == <<inbox, jobq, outcome, snapshot>>
viewVars == <<events, pending, gaveUp, seen>>
vars == <<sourceVars, pup, work, left, cache, disk, check, jobVars, viewVars>>

Checkers == {"periodic", "done", "loop"}
AllJobs == {"install", "upgrade", "rollback", "purge"}

NoEntry == [cur |-> 0, avail |-> {}]
NoAnswers == [p \in Pups |-> NoEntry]
NoCheck == [batch |-> FALSE, todo |-> {}, pup |-> "none", ver |-> 0]
NoOutcome == [job |-> NoJob, ok |-> FALSE]

(* The processes start with some pups installed, or none.                    *)
Init ==
  /\ published = [s \in Sources |-> 1]
  /\ sources = SetToSeq(Sources)
  /\ saved = sources /\ relied = Range(sources) /\ crossed = FALSE
  /\ listing = [s \in Git |-> NoList]
  /\ pup \in [Pups -> {NoPup} \cup [version : {1}, source : Sources]]
  /\ work = [a \in Actors |-> Idle]
  /\ left \in Budgets
  /\ cache = NoAnswers /\ disk = NoAnswers
  /\ check = [c \in Checkers |-> NoCheck]
  /\ inbox = <<>> /\ jobq = <<>> /\ outcome = NoOutcome
  /\ snapshot = [p \in Pups |-> 0]
  /\ events = 0 /\ pending = FALSE /\ gaveUp = FALSE /\ seen = NoAnswers

-----------------------------------------------------------------------------
(* A check of the pups in `todo`: all of them, or one.                       *)

StartCheck(c, batch, todo) ==
  /\ work' = [work EXCEPT ![c] = [Idle EXCEPT !.at = "next"]]
  /\ check' = [check EXCEPT ![c] = [NoCheck EXCEPT !.batch = batch, !.todo = todo]]

Installed == {p \in Pups : pup[p].version # 0}

\* Mutant: a pup that has an answer is not asked about again.
Unanswered == {p \in Installed : cache[p] = NoEntry}

(* checkAllPupUpdatesInternal asks about every installed pup.                *)
ToCheck == Installed

PeriodicCheck ==
  /\ At("periodic", "idle") /\ StartCheck("periodic", TRUE, ToCheck)
  /\ UNCHANGED <<sourceVars, pup, left, cache, disk, jobVars, viewVars>>

(* GetPup and GetSource, up to List(true).  A pup that is gone, is from a    *)
(* directory or whose source is gone is done with.                           *)
CheckPup(c, p) ==
  /\ At(c, "next") /\ p \in check[c].todo
  /\ check' = [check EXCEPT ![c].todo = @ \ {p}, ![c].pup = p, ![c].ver = pup[p].version]
  /\ IF pup[p].version # 0 /\ pup[p].source \in Git /\ GetSource(pup[p].source)
       THEN work' = [work EXCEPT ![c].at = "relist", ![c].src = pup[p].source,
                                 ![c].then = "write"]
       ELSE UNCHANGED work
  /\ UNCHANGED <<sourceVars, pup, left, cache, disk, jobVars, viewVars>>

CheckFails(c) ==
  /\ At(c, "unlisted") /\ Goto(c, "next")
  /\ UNCHANGED <<sourceVars, pup, left, cache, disk, check, jobVars, viewVars>>

\* Mutant: the current version is offered too.
NotOlder(c) == {v \in work[c].got : v >= check[c].ver}

Newer(c) == {v \in work[c].got : v > check[c].ver}

(* First release notes are looked for, which changes no version; then the    *)
(* answer is written.                                                        *)
WriteCache(c) ==
  /\ At(c, "write")
  /\ cache' = [cache EXCEPT ![check[c].pup] = [cur |-> check[c].ver, avail |-> Newer(c)]]
  /\ work' = [work EXCEPT ![c] = [Idle EXCEPT !.at = "emit"]]
  /\ check' = [check EXCEPT ![c].pup = "none", ![c].ver = 0]
  /\ UNCHANGED <<sourceVars, pup, left, disk, jobVars, viewVars>>

CheckEnds(c) ==
  /\ At(c, "next") /\ check[c].todo = {}
  /\ IF check[c].batch
       THEN Goto(c, "emitAll") /\ UNCHANGED check
       ELSE Done(c) /\ check' = [check EXCEPT ![c] = NoCheck]
  /\ UNCHANGED <<sourceVars, pup, left, cache, disk, jobVars, viewVars>>

\* Mutant: an event only when there is an update.
EmittedIfAny(c) ==
  IF events < MaxEvents /\ \E p \in Pups : cache[p].avail # {} THEN events + 1 ELSE events

(* emitEvent: a full channel drops the event.                                *)
Emitted(c) == IF events < MaxEvents THEN events + 1 ELSE events

(* saveCacheToDisk, and the event.                                           *)
EmitEvent(c) ==
  /\ work[c].at \in {"emit", "emitAll"}
  /\ events' = Emitted(c) /\ disk' = cache
  /\ IF At(c, "emit") THEN work' = [work EXCEPT ![c] = [Idle EXCEPT !.at = "next"]] /\ UNCHANGED check
     ELSE Done(c) /\ check' = [check EXCEPT ![c] = NoCheck]
  /\ UNCHANGED <<sourceVars, pup, left, cache, jobVars, pending, gaveUp, seen>>

(* ClearCacheEntry saves in a goroutine of its own.                          *)
ClearEntry(p) ==
  /\ At("clear", "idle")
  /\ cache' = [cache EXCEPT ![p] = NoEntry]

SaveAgain == [Idle EXCEPT !.at = "save"]

SaveCleared ==
  /\ At("clear", "save") /\ Done("clear") /\ disk' = cache
  /\ UNCHANGED <<sourceVars, pup, left, cache, check, jobVars, viewVars>>

-----------------------------------------------------------------------------
(* The frontend's requests.                                                  *)

Request(job) == inbox' = Append(inbox, job)
Ask(kind, p, s, v) == [kind |-> kind, pup |-> p, src |-> s, to |-> v]

RequestJob ==
  /\ Spend("jobs")
  /\ \/ \E s \in Sources : \E v \in 1..published[s] :
          "install" \in JobKinds /\ Request(Ask("install", "none", s, v))
     \/ \E p \in Installed : \E v \in cache[p].avail :
          "upgrade" \in JobKinds /\ Request(Ask("upgrade", p, pup[p].source, v))
     \/ \E p \in Installed : \E kind \in JobKinds \cap {"rollback", "purge", "check"} :
          Request(Ask(kind, p, pup[p].source, 0))
  /\ UNCHANGED <<sourceVars, pup, work, cache, disk, check, jobq, outcome,
                 snapshot, viewVars>>

(* GET /store?refresh=true: every source is listed afresh, and a source that *)
(* fails is listed with its error; then all pups are to be checked.          *)
RefreshStore ==
  /\ Spend("jobs") /\ At("store", "idle") /\ "check" \in JobKinds
  /\ work' = [work EXCEPT !["store"].at = "source", !["store"].index = Len(sources)]
  /\ UNCHANGED <<sourceVars, pup, cache, disk, check, jobVars, viewVars>>

StoreSource ==
  /\ work["store"].at \in {"source", "unlisted"}
  /\ LET i == work["store"].index IN
     IF i = 0 THEN Done("store") /\ Request(Ask("check", "all", "none", 0))
     ELSE /\ work' = [work EXCEPT !["store"] =
               IF i \in DOMAIN sources
                 THEN [@ EXCEPT !.at = "relist", !.src = sources[i], !.then = "source",
                                !.got = {}, !.index = i - 1]
                 ELSE [@ EXCEPT !.at = "source", !.index = i - 1]]
          /\ UNCHANGED inbox
  /\ UNCHANGED <<sourceVars, pup, left, cache, disk, check, jobq, outcome,
                 snapshot, viewVars>>

-----------------------------------------------------------------------------
(* The main loop.                                                            *)

(* jobDispatcher: an installation needs a listing first, a check is made by  *)
(* the loop itself.                                                          *)
Dispatch ==
  /\ At("loop", "idle") /\ inbox # <<>> /\ inbox' = Tail(inbox)
  /\ LET j == Head(inbox) IN
     CASE j.kind = "install" ->
            /\ IF GetSource(j.src)
                 THEN work' = [work EXCEPT !["loop"] =
                        [Idle EXCEPT !.at = "list", !.src = j.src, !.then = "adopt", !.job = j]]
                 ELSE UNCHANGED work
            /\ UNCHANGED <<jobq, check>>
       [] j.kind = "check" ->
            /\ StartCheck("loop", j.pup = "all", IF j.pup = "all" THEN ToCheck ELSE {j.pup})
            /\ UNCHANGED jobq
       [] OTHER ->
            /\ jobq' = IF j.pup \in Installed THEN Append(jobq, j) ELSE jobq
            /\ UNCHANGED <<work, check>>
  /\ UNCHANGED <<sourceVars, pup, left, cache, disk, outcome, snapshot, viewVars>>

(* createPupFromManifest: the version must be listed, and not be installed.  *)
AdoptPup ==
  /\ work["loop"].at \in {"adopt", "unlisted"} /\ work["loop"].job.kind = "install"
  /\ LET j == work["loop"].job
         new == [version |-> j.to, source |-> j.src]
     IN IF At("loop", "adopt") /\ j.to \in work["loop"].got /\ \A p \in Pups : pup[p] # new
          THEN \E p \in Pups \ Installed :
                 /\ pup' = [pup EXCEPT ![p] = new]
                 /\ jobq' = Append(jobq, [j EXCEPT !.pup = p])
          ELSE UNCHANGED <<pup, jobq>>
  /\ Done("loop")
  /\ UNCHANGED <<sourceVars, left, cache, disk, check, inbox, outcome,
                 snapshot, viewVars>>

ChecksAfter(o) == o.job.kind = "install" \/ (o.ok /\ o.job.kind \in {"upgrade", "rollback"})

(* A job has come back: the pup is checked again, or forgotten.              *)
CompleteJob ==
  /\ At("loop", "idle") /\ outcome # NoOutcome /\ outcome' = NoOutcome
  /\ CASE ChecksAfter(outcome) ->
            /\ At("done", "idle") /\ StartCheck("done", FALSE, {outcome.job.pup})
            /\ UNCHANGED cache
       [] outcome.job.kind = "purge" ->
            /\ ClearEntry(outcome.job.pup)
            /\ work' = [work EXCEPT !["clear"] = SaveAgain] /\ UNCHANGED check
       [] OTHER -> UNCHANGED <<work, check, cache>>
  /\ UNCHANGED <<sourceVars, pup, left, disk, inbox, jobq, snapshot, viewVars>>

(* An event becomes a change for the websocket relay, unless the relay is    *)
(* behind by more than its queue and SendChange gives up.                    *)
ReadEvent ==
  /\ At("loop", "idle") /\ events > 0 /\ events' = events - 1
  /\ \/ pending' = TRUE /\ UNCHANGED <<left, gaveUp>>
     \/ Trouble /\ gaveUp' = TRUE /\ UNCHANGED pending
  /\ UNCHANGED <<sourceVars, pup, work, cache, disk, check, jobVars, seen>>

(* GET /pup/updates.                                                         *)
Fetch ==
  /\ pending /\ pending' = FALSE /\ gaveUp' = FALSE /\ seen' = cache
  /\ UNCHANGED <<sourceVars, pup, work, left, cache, disk, check, jobVars, events>>

-----------------------------------------------------------------------------
(* The SystemUpdater, as far as versions and sources go.                     *)

Job == work["updater"].job

List(then, job) ==
  work' = [work EXCEPT !["updater"] = IF GetSource(job.src)
             THEN [Idle EXCEPT !.at = "list", !.src = job.src, !.then = then, !.job = job]
             ELSE [Idle EXCEPT !.at = "unlisted", !.job = job]]

TakeJob ==
  /\ At("updater", "idle") /\ jobq # <<>> /\ outcome = NoOutcome /\ jobq' = Tail(jobq)
  /\ LET j == Head(jobq) IN
     CASE j.kind = "install" -> List("place", j) /\ UNCHANGED <<pup, snapshot>>
       [] j.kind = "upgrade" ->
            /\ snapshot' = [snapshot EXCEPT ![j.pup] = pup[j.pup].version]
            /\ List("bump", j) /\ UNCHANGED pup
       [] j.kind = "rollback" ->
            /\ IF snapshot[j.pup] = 0
                 THEN work' = [work EXCEPT !["updater"] = [Idle EXCEPT !.at = "unlisted", !.job = j]]
                 ELSE List("place", [j EXCEPT !.to = snapshot[j.pup]])
            /\ UNCHANGED <<pup, snapshot>>
       [] OTHER ->
            /\ pup' = [pup EXCEPT ![j.pup] = NoPup]
            /\ work' = [work EXCEPT !["updater"] = [Idle EXCEPT !.at = "finish", !.job = j]]
            /\ UNCHANGED snapshot
  /\ UNCHANGED <<sourceVars, left, cache, disk, check, inbox, outcome, viewVars>>

(* upgradePup: the state moves to the new version, and the answer that       *)
(* offered it is dropped, before anything is downloaded.                     *)
BumpVersion ==
  /\ At("updater", "bump")
  /\ IF Job.to \in work["updater"].got /\ Job.pup \in Installed
       THEN /\ pup' = [pup EXCEPT ![Job.pup].version = Job.to]
            /\ ClearEntry(Job.pup)
            /\ work' = [work EXCEPT !["updater"].at = "fetch", !["clear"] = SaveAgain]
       ELSE Goto("updater", "unlisted") /\ UNCHANGED <<pup, cache>>
  /\ UNCHANGED <<sourceVars, left, disk, check, jobVars, viewVars>>

(* DownloadPup.                                                              *)
Download ==
  /\ At("updater", "fetch") /\ List("place", Job)
  /\ UNCHANGED <<sourceVars, pup, left, cache, disk, check, jobVars, viewVars>>

Place ==
  /\ At("updater", "place")
  /\ IF Job.to \in work["updater"].got /\ Job.pup \in Installed
       THEN /\ pup' = [pup EXCEPT ![Job.pup].version = Job.to]
            /\ snapshot' = IF Job.kind = "rollback" THEN [snapshot EXCEPT ![Job.pup] = 0]
                           ELSE snapshot
            /\ Goto("updater", "finish")
       ELSE Goto("updater", "unlisted") /\ UNCHANGED <<pup, snapshot>>
  /\ UNCHANGED <<sourceVars, left, cache, disk, check, inbox, jobq, outcome, viewVars>>

FinishJob ==
  /\ work["updater"].at \in {"finish", "unlisted"}
  /\ outcome' = [job |-> Job, ok |-> At("updater", "finish")]
  /\ Done("updater")
  /\ UNCHANGED <<sourceVars, pup, left, cache, disk, check, inbox, jobq, snapshot,
                 viewVars>>

-----------------------------------------------------------------------------
(* The process dies.  The next one has the saved sources and the cache file. *)
Crash ==
  /\ Trouble
  /\ sources' = saved
  /\ listing' = [s \in Git |-> NoList]
  /\ work' = [a \in Actors |-> Idle] /\ check' = [c \in Checkers |-> NoCheck]
  /\ cache' = disk /\ seen' = disk
  /\ inbox' = <<>> /\ jobq' = <<>> /\ outcome' = NoOutcome
  /\ events' = 0 /\ pending' = FALSE /\ gaveUp' = FALSE
  /\ UNCHANGED <<published, saved, relied, crossed, pup, disk, snapshot>>

Rest == <<cache, disk, check, jobVars, viewVars>>

Listing(a) == (ListCached(a) \/ ListDirectory(a) \/ ListTags(a) \/ ListClone(a) \/ ListFails(a))
              /\ UNCHANGED Rest
Checking(c) == (\E p \in Pups : CheckPup(c, p)) \/ CheckFails(c)
               \/ WriteCache(c) \/ CheckEnds(c) \/ EmitEvent(c)

Loop == Dispatch \/ AdoptPup \/ CompleteJob \/ ReadEvent \/ Listing("loop")
        \/ (work["loop"].job = NoJob /\ Checking("loop"))
Periodic == PeriodicCheck \/ Listing("periodic") \/ Checking("periodic")
AfterJob == Listing("done") \/ Checking("done")
Store == StoreSource \/ Listing("store")
UpdaterNext == TakeJob \/ BumpVersion \/ Download \/ Place \/ FinishJob \/ Listing("updater")

Next == \/ Loop \/ Periodic \/ AfterJob \/ SaveCleared \/ Store \/ UpdaterNext
        \/ Fetch \/ RequestJob \/ RefreshStore \/ Crash
        \/ ((\E a \in Admins : Edit(a)) \/ \E s \in Sources : Publish(s)) /\ UNCHANGED Rest

Spec == Init /\ [][Next]_vars
FairSpec == /\ Spec
            /\ WF_vars(Loop) /\ WF_vars(Periodic) /\ WF_vars(AfterJob) /\ WF_vars(SaveCleared)
            /\ WF_vars(Store) /\ WF_vars(UpdaterNext) /\ WF_vars(Fetch)
-----------------------------------------------------------------------------
Entries == [cur : Versions \cup {0}, avail : SUBSET Versions]

(* The types; an answer only offers versions newer than the one it is about. *)
TypeOK ==
  /\ SourcesTypeOK
  /\ \A p \in Pups : /\ {cache[p], seen[p], disk[p]} \subseteq Entries
                     /\ \A v \in cache[p].avail : v > cache[p].cur
  /\ events \in 0..MaxEvents /\ snapshot \in [Pups -> Versions \cup {0}]

(* "Send event to frontend so it can refresh its cache": although a full     *)
(* channel drops events, the frontend is never left behind the answer of a   *)
(* check with nothing on its way to tell it, unless the relay itself was     *)
(* stuck (emitEvent, and the event case of Dogeboxd.Run).                    *)
NoMissedRefresh ==
  \A p \in Pups : cache[p] \notin {NoEntry, seen[p]} =>
    \/ events > 0 \/ pending \/ gaveUp
    \/ \E c \in Checkers : At(c, "emit")

UpToDate(p) ==
  pup[p].version # 0 /\ pup[p].source \in Git /\ GetSource(pup[p].source) =>
    /\ cache[p].cur = pup[p].version
    /\ cache[p].avail = (pup[p].version + 1)..published[pup[p].source]

(* Whatever late check has put an old answer back, in the end the cache has, *)
(* for every installed pup of a git source, the version it is at and all     *)
(* newer ones (checkAllPupUpdatesInternal, StartPeriodicCheck).              *)
CacheSettles == <>[](\A p \in Pups : UpToDate(p))
=============================================================================
