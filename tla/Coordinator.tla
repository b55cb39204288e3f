----------------------------- MODULE Coordinator ------------------------------
(***************************************************************************)
(* A run: every worker in turn is started, watched until it ends or its    *)
(* time is up, and what it wrote is collected (Run::execute() and          *)
(* supervise() in coordinator/src).  The worker moves at its own pace      *)
(* between the coordinator's steps, and need not move at all.              *)
(***************************************************************************)
EXTENDS WorkerProcess

CONSTANTS
  Setups,      \* the runs: a list of cases, a list of workers (name, and whether
               \* it is alien), and whether the text of a result may be cut
  Leftovers    \* what an earlier run may have left in a results file

ASSUME SetupsAssumption ==
  Setups \subseteq [list : Seq(Cases) \ {<<>>},
                    crew : Seq([name : STRING, alien : BOOLEAN]) \ {<<>>},
                    cuts : BOOLEAN]
ASSUME LeftoversAssumption == Leftovers \subseteq File /\ NoFile \in Leftovers

VARIABLES
  crew,      \* the workers, in the order they are run
  fresh,     \* whether the run directory was empty
  phase,     \* where the coordinator is
  cur,       \* the worker it is at
  expired,   \* whether the worker's wall clock has run out
  killed,    \* whether the worker was sent SIGKILL
  term,      \* how the worker is taken to have ended
  reports,   \* one report per worker collected
  past       \* history: what each of these workers really did

runVars == <<crew, fresh, phase, cur, expired, killed, term, reports, past>>
vars == <<assigned, cuts, procVars, runVars>>

-----------------------------------------------------------------------------
(* The coordinator *)

\* An I/O error of the run itself: no report is written.
Abort == phase' = "aborted" /\ UNCHANGED <<procVars, crew, fresh, cur, expired,
                                           killed, term, reports, past>>

\* The run directory and the list every worker reads.
Prepare ==
  /\ phase = "prepare"
  /\ \/ Abort
     \/ phase' = "spawn" /\ UNCHANGED <<procVars, crew, fresh, cur, expired, killed,
                                        term, reports, past>>

\* Cases counted from zero.
StartedAtZero(p) ==
  /\ job' = crew[cur] /\ pc' = p /\ next' = 0 /\ line' = Header
  /\ fate' = NotEnded /\ opened' = FALSE /\ wrote' = <<>>
  /\ expired' = FALSE /\ killed' = FALSE
  /\ UNCHANGED <<files, crew, fresh, cur, reports, past>>

Started(p) ==
  /\ job' = crew[cur] /\ pc' = p /\ next' = 1 /\ line' = Header
  /\ fate' = NotEnded /\ opened' = FALSE /\ wrote' = <<>>
  /\ expired' = FALSE /\ killed' = FALSE
  /\ UNCHANGED <<files, crew, fresh, cur, reports, past>>

\* The files for its output are created, then the process.
Spawn ==
  /\ phase = "spawn"
  /\ \/ Abort
     \/ Started("none") /\ term' = "spawnFailed" /\ phase' = "collect"
     \/ Started("reading") /\ UNCHANGED term /\ phase' = "poll"

\* try_wait().  When it fails the run is over, and the worker is left to itself.
Poll ==
  /\ phase = "poll"
  /\ \/ UNCHANGED term /\ phase' = "abandoned"
     \/ pc = "ended" /\ term' = fate /\ phase' = "collect"
     \/ pc # "ended" /\ UNCHANGED term /\ phase' = "check"
  /\ UNCHANGED <<procVars, crew, fresh, cur, expired, killed, reports, past>>

\* The process left alone when its time is up.
CheckWithoutKill ==
  /\ phase = "check"
  /\ phase' = IF expired THEN "wait" ELSE "poll"
  /\ UNCHANGED <<procVars, crew, fresh, cur, expired, killed, term, reports, past>>

\* The clock is read after the process was seen running; it may have ended
\* since.  Sleeping is the way back to Poll.
Check ==
  /\ phase = "check"
  /\ IF expired THEN killed' = TRUE /\ phase' = "wait"
                ELSE UNCHANGED killed /\ phase' = "poll"
  /\ UNCHANGED <<procVars, crew, fresh, cur, expired, term, reports, past>>

\* The results collected as soon as the signal is sent.
NoWait ==
  /\ phase = "wait"
  /\ term' = "timedOut" /\ phase' = "collect"
  /\ UNCHANGED <<procVars, crew, fresh, cur, expired, killed, reports, past>>

\* wait(): back when the process is gone.
Wait ==
  /\ phase = "wait" /\ pc = "ended"
  /\ term' = "timedOut" /\ phase' = "collect"
  /\ UNCHANGED <<procVars, crew, fresh, cur, expired, killed, reports, past>>

CollectResults ==
  /\ phase = "collect"
  /\ reports' = Append(reports, Collect(assigned, files[job.name], term))
  /\ past' = Append(past, [opened |-> opened, wrote |-> wrote, next |-> next])
  /\ IF cur < Len(crew) THEN cur' = cur + 1 /\ phase' = "spawn"
                        ELSE UNCHANGED cur /\ phase' = "publish"
  /\ expired' = FALSE /\ killed' = FALSE
  /\ UNCHANGED <<procVars, crew, fresh, term>>

\* run.json.
Publish ==
  /\ phase = "publish"
  /\ \/ Abort
     \/ phase' = "done" /\ UNCHANGED <<procVars, crew, fresh, cur, expired, killed,
                                       term, reports, past>>

Supervisor ==
  \/ Prepare \/ Spawn \/ Poll \/ Check \/ Wait \/ CollectResults \/ Publish

-----------------------------------------------------------------------------
(* What goes on around it *)

Worker == Work /\ UNCHANGED runVars

\* The worker's time runs out.
Clock ==
  /\ phase \in {"poll", "check"} /\ ~expired
  /\ expired' = TRUE
  /\ UNCHANGED <<procVars, crew, fresh, phase, cur, killed, term, reports, past>>

\* SIGKILL takes effect; until then the worker may still run.
KilledDies == killed /\ Alive /\ Exit("signal") /\ UNCHANGED runVars

RunOver == phase \in {"done", "aborted", "abandoned"}

Stopped == RunOver /\ UNCHANGED <<procVars, runVars>>

-----------------------------------------------------------------------------

Names(c) == {c[i].name : i \in DOMAIN c}

Init ==
  /\ \E run \in Setups : assigned = run.list /\ crew = run.crew /\ cuts = run.cuts
  /\ files \in [Names(crew) -> Leftovers]
  /\ fresh = (\A n \in Names(crew) : files[n] = NoFile)
  /\ job = crew[1] /\ pc = "none" /\ next = 1 /\ line = Header
  /\ fate = NotEnded /\ opened = FALSE /\ wrote = <<>>
  /\ phase = "prepare" /\ cur = 1 /\ expired = FALSE /\ killed = FALSE
  /\ term = "exit0" /\ reports = <<>> /\ past = <<>>

\* The run's inputs.
Given == <<assigned, cuts>>

Next ==
  /\ Supervisor \/ Worker \/ Clock \/ KilledDies \/ Stopped
  /\ UNCHANGED Given

\* The coordinator runs, time passes and the kernel kills what it is told to.
\* Nothing is asked of the worker.
Fairness ==
  /\ WF_vars(Supervisor /\ UNCHANGED Given)
  /\ WF_vars(Clock /\ UNCHANGED Given)
  /\ WF_vars(KilledDies /\ UNCHANGED Given)

Spec == Init /\ [][Next]_vars /\ Fairness

-----------------------------------------------------------------------------
(* Properties *)

Phases == {"prepare", "spawn", "poll", "check", "wait", "collect", "publish",
           "done", "aborted", "abandoned"}
PCs == {"none", "reading", "opening", "header", "case", "writing", "spilled", "ended"}

\* The type of every variable.
TypeOK ==
  /\ [list |-> assigned, crew |-> crew, cuts |-> cuts] \in Setups
  /\ fresh \in BOOLEAN
  /\ job \in [name : Names(crew), alien : BOOLEAN]
  /\ pc \in PCs /\ next \in Nat \ {0} /\ line \in Line
  /\ files \in [Names(crew) -> File]
  /\ fate \in Terminations \cup {NotEnded} /\ opened \in BOOLEAN
  /\ wrote \in Seq(Line)
  /\ phase \in Phases /\ cur \in DOMAIN crew
  /\ expired \in BOOLEAN /\ killed \in BOOLEAN /\ term \in Terminations
  /\ reports \in Seq(Report)
  /\ past \in Seq([opened : BOOLEAN, wrote : Seq(Line), next : Nat \ {0}])

Distinct(list) == \A i, j \in DOMAIN list : list[i] = list[j] => i = j

\* Whatever kills a worker, at whatever moment, and whatever it writes: if it
\* opened its file and no character is cut, its report holds exactly the lines it
\* completed, each answer once, and no line it was still writing.
CountedExactly ==
  \A w \in DOMAIN reports :
    ~cuts /\ past[w].opened
      => LET t == past[w].wrote
         IN  /\ reports[w].reported = Reported(t)
             /\ reports[w].header = HasHeader(t)
             /\ \A s \in Statuses : reports[w].count[s] = CountOf(t, s)

\* A shipped worker that is destroyed has the case it was on named, or the one
\* it would have gone on to, or none when it had answered all of them.
SuspectWasNext ==
  \A w \in DOMAIN reports :
    ~cuts /\ past[w].opened /\ ~crew[w].alien /\ Distinct(assigned)
        /\ IsAbnormal(reports[w].term)
      => reports[w].suspect = IF past[w].next > Len(assigned) THEN NoCase
                              ELSE assigned[past[w].next]

\* A shipped worker is said to have broken the protocol only when it did: when it
\* exited as if it were done, before it was.  A line torn by its death is not
\* held against it.
BlameDeserved ==
  \A w \in DOMAIN reports :
    ~cuts /\ past[w].opened /\ ~crew[w].alien /\ Distinct(assigned)
        /\ reports[w].errors # {}
      => reports[w].term = "exit0" /\ past[w].next <= Len(assigned)

\* The summary says ok of no worker, shipped or alien, whose report leaves a case
\* open, answers one twice or with an unknown status, or names a stranger.
OkIsComplete ==
  \A w \in DOMAIN reports :
    LET r == reports[w]
    IN  Verdict(r) = "ok"
          => /\ r.reported = {assigned[i] : i \in DOMAIN assigned}
             /\ r.count["accepted"] + r.count["rejected"] + r.count["error"]
                  = Cardinality(r.reported)

\* The files a run leaves behind, which the differential report reads again, say
\* what its report says: no worker writes after it was collected.
ArtifactsAgree ==
  (\A v, w \in DOMAIN crew : crew[v].name = crew[w].name => v = w)
    => \A w \in DOMAIN reports :
         reports[w] = Collect(assigned, files[crew[w].name], reports[w].term)

\* A hanging worker does not hang the run.
RunEnds == <>RunOver

\* The accounts of a run with nothing left over and no character cut.
Clean ==
  fresh /\ ~cuts /\ \A v, w \in DOMAIN crew : crew[v].name = crew[w].name => v = w

StateOf ==
  [w \in DOMAIN crew |->
     IF ~Clean \/ w > cur THEN "waiting"
     ELSE IF w \in DOMAIN reports THEN "closed"
     ELSE IF phase \in {"poll", "check", "wait", "collect", "abandoned"} THEN "running"
     ELSE "waiting"]

DoneOf ==
  [w \in DOMAIN crew |->
     IF StateOf[w] = "waiting" THEN {}
     ELSE IF StateOf[w] = "running" THEN Reported(wrote) ELSE reports[w].reported]

Accounts == INSTANCE Accounting WITH Case <- Cases, crew <- Len(crew),
                                     state <- StateOf, done <- DoneOf

\* One worker at a time, no answer lost, and what is closed stays closed.
FollowsAccounting == Accounts!Spec

\* run.rs:131-132: of a worker that ended before it first wrote, every case is
\* not-run.
NothingInherited ==
  \A w \in DOMAIN reports :
    ~past[w].opened /\ reports[w].term # "spawnFailed" => reports[w].reported = {}

\* worker-protocol.md:60-66: of a shipped worker that dies, the case it was on is
\* named.
DeathIsAttributed ==
  \A w \in DOMAIN reports :
    past[w].opened /\ ~crew[w].alien /\ Distinct(assigned)
        /\ IsAbnormal(reports[w].term) /\ past[w].next <= Len(assigned)
      => reports[w].suspect = assigned[past[w].next]
=============================================================================
