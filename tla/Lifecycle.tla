----------------------------- MODULE Lifecycle -----------------------------
(***************************************************************************)
(* The compile run: reinforcement, decay, archival and graduation of the   *)
(* notes under notes/.                                                     *)
(*                                                                         *)
(* A run reads the whole vault once, then goes through the notes and       *)
(* writes each from what it read, unless the file has changed since; calls *)
(* that edit notes go on meanwhile.  Whatever it does it reports, and a    *)
(* run that fails at one note stops there.  Confidence is a function of    *)
(* the time since a note was last reinforced and of its stability, which   *)
(* grows with each reinforcement.                                          *)
(*                                                                         *)
(* Time is in hours, confidence in tenths.  A stability is a ratio of      *)
(* hundredths of a day, and is stored rounded to hundredths.  A write and  *)
(* the check before it happen under the lock of the path, and are one      *)
(* step; who may get past that lock is VaultWriters' subject.              *)
(***************************************************************************)
EXTENDS Integers, Sequences

CONSTANTS
  Ids,        \* notes
  Order,      \* the order they are walked in under notes/
  Base,       \* the basename of each, which it keeps in archive/
  Cites,      \* pairs of a note and a basename its text refers to
  Hours,      \* the hours at which something happens
  Starts,     \* what the vault may start with under notes/
  Requests,   \* what compile_lifecycle is asked for
  None,
  Scenarios   \* bounds: how many runs, edits and faults may happen together

Stages   == {"seed", "developing", "stable"}
Statuses == {"active", "paused", "disputed", "falsified", "faded", "archived"}

Note == [status : Statuses, maturity : Stages, count : Nat, stability : Nat,
         anchor : Hours, updated : Hours, conf : 0..10, graduated : BOOLEAN]

Request == [reinforce : SUBSET Ids, falsify : SUBSET Ids, dispute : SUBSET Ids,
            graduate : SUBSET Ids, reasons : BOOLEAN, dry : BOOLEAN]

Bounds == [runs : Nat, edits : Nat, faults : Nat]

ASSUME LifecycleAssumption ==
  /\ Hours \subseteq Nat /\ 0 \in Hours
  /\ Order \in Seq(Ids)
  /\ \A i \in Ids : \E k \in 1..Len(Order) : Order[k] = i
  /\ \A c \in Cites : c[1] \in Ids
  /\ None \notin Note \cup Request
  /\ Starts \subseteq [Ids -> Note \cup {None}]
  /\ Requests \subseteq Request
  /\ Scenarios \subseteq Bounds

(* Only a compile run writes a stability, and it starts from freshStability; *)
(* a note it has not written has none.                                     *)
FreshStability == 1400

VARIABLES
  live,     \* the files under notes/
  shelf,    \* the files under archive/
  now,
  run,      \* the compile run
  landed,   \* history variable: the actions the run's writes have carried out
  settled,  \* history variable: notes the last run decided on, unedited since
  budget    \* what is left of the bounds

vars == <<live, shelf, now, run, landed, settled, budget>>

-----------------------------------------------------------------------------
(* The curve.  confidence(t) = (1 + t/S)^(-1/2), rounded to tenths.        *)

AncientAfter     == 180 * 24
RefreshWithin    == 7 * 24
RefreshBudget    == AncientAfter
StableMinRuns    == 3

Elapsed(from, at) == IF at > from THEN at - from ELSE 0

(* decayConfidence and round1: the largest k with confidence >= (2k-1)/20. *)
Confidence(t, s) ==
  LET aged == 6 * s[1] + 25 * t * s[2]
  IN CHOOSE k \in 0..10 :
       /\ k = 0 \/ (2 * k - 1) * (2 * k - 1) * aged <= 2400 * s[1]
       /\ k = 10 \/ (2 * k + 1) * (2 * k + 1) * aged > 2400 * s[1]

(* Below archiveBelow before it is rounded.                                *)
Faded(t, s) == 25 * t * s[2] > 144 * s[1]

(* To the nearest.                                                         *)
Quotient(x, y) == (2 * x + y) \div (2 * y)

(* What is written of a stability.                                         *)
Hundredths(s) == Quotient(s[1], s[2])

(* math.Pow.                                                               *)
Power(b) == LET p[n \in Nat] == IF n = 0 THEN 1 ELSE b * p[n - 1] IN p

(* 14 days, 1.9 times as long for each reinforcement.                      *)
InitStability(count, maturity) ==
  LET days == 14 * Power(19)[count] * (IF maturity = "stable" THEN 4 ELSE 1)
  IN IF count < 2 THEN <<days * Power(10)[2 - count], 1>> ELSE <<days, Power(10)[count - 2]>>

(* What is stored, or what the note's history has earned, not rounded.     *)
StabilityOf(n) ==
  IF n.stability > 0 THEN <<n.stability, 1>> ELSE InitStability(n.count, n.maturity)

(* So close that rounding at each reinforcement can have made all the      *)
(* difference to what that count has earned.                               *)
AsEarned(stability, count, maturity) ==
  LET factor == IF maturity = "stable" THEN 4 ELSE 1
      error  == stability * Power(10)[count] - FreshStability * factor * Power(19)[count]
      bound  == 5 * factor * (Power(19)[count] - Power(10)[count])
  IN -bound <= 9 * error /\ 9 * error <= bound

ASSUME StabilityAssumption ==
  \A v \in Starts, i \in Ids :
    v[i] # None =>
      v[i].stability = 0 \/ AsEarned(v[i].stability, v[i].count, v[i].maturity)

-----------------------------------------------------------------------------
(* What a run decides on one note.                                         *)

Promoted(maturity, count) ==
  IF maturity = "seed" THEN "developing"
  ELSE IF maturity = "developing" /\ count >= StableMinRuns THEN "stable" ELSE maturity

(* Mutant: a bump at every reinforcement of a stable note.                 *)
GrownAgain(n, maturity) ==
  Quotient(StabilityOf(n)[1] * (IF maturity = "stable" THEN 76 ELSE 19), 10 * StabilityOf(n)[2])

(* Half the forgetting at every reinforcement; promotion to stable counts  *)
(* four times, once.                                                       *)
Grown(n, maturity) ==
  Quotient(StabilityOf(n)[1] * (IF maturity = "stable" /\ n.maturity # "stable" THEN 76 ELSE 19),
           10 * StabilityOf(n)[2])

(* Paused and graduated notes are exempt from decay.                       *)
Frozen(n) == n.status = "paused" \/ n.graduated

(* Mutant: a reinforcement that is not stamped.                            *)
ReinforcedUnstamped(n, at) ==
  LET maturity == Promoted(n.maturity, n.count + 1)
  IN [n EXCEPT !.count = @ + 1, !.maturity = maturity, !.stability = Grown(n, maturity),
               !.status = IF @ = "disputed" THEN "active" ELSE @,
               !.conf = IF Frozen(n) THEN @ ELSE 10]

(* No time has passed since: confidence is at its peak.                    *)
Reinforced(n, at) ==
  LET maturity == Promoted(n.maturity, n.count + 1)
  IN [n EXCEPT !.count = @ + 1, !.maturity = maturity, !.stability = Grown(n, maturity),
               !.anchor = at, !.status = IF @ = "disputed" THEN "active" ELSE @,
               !.conf = IF Frozen(n) THEN @ ELSE 10]

(* The frontmatter a run stages.  A stability it had to reconstruct is     *)
(* stored rounded, and used as it was.                                     *)
Assessed(n, reinforced, at) ==
  IF reinforced THEN Reinforced(n, at)
  ELSE [n EXCEPT !.stability = Hundredths(StabilityOf(n)),
                 !.conf = IF Frozen(n) THEN @
                          ELSE Confidence(Elapsed(n.anchor, at), StabilityOf(n))]

Changed(n, reinforced, at) == reinforced \/ Assessed(n, reinforced, at) # n

(* A citation shields for as long as the last reinforcement is recent.     *)
Shields(n, cited, at) == cited /\ RefreshBudget - (at - n.anchor) > 0

(* Mutant: the rounded confidence is compared.                             *)
WillFadeRounded(n, reinforced, cited, at) ==
  ~Frozen(n) /\ ~Shields(n, cited, at) /\ Assessed(n, reinforced, at).conf < 2

WillFade(n, reinforced, cited, at) ==
  ~reinforced /\ ~Frozen(n) /\ ~Shields(n, cited, at) /\ Faded(Elapsed(n.anchor, at), StabilityOf(n))

WillArchive(n, reinforced, cited, at) ==
  ~reinforced /\ ~Frozen(n) /\ ~Shields(n, cited, at) /\ at - n.updated > AncientAfter

(* The lines of the report.                                                *)
Lines(n, reinforced, at) ==
  LET m == Assessed(n, reinforced, at)
  IN IF reinforced
     THEN <<"reinforced">>
          \o (IF m.maturity # n.maturity THEN <<"promoted">> ELSE <<>>)
          \o (IF n.status = "disputed" THEN <<"dispute-cleared">> ELSE <<>>)
     ELSE IF m.conf < n.conf THEN <<"decayed">>
     ELSE IF Changed(n, reinforced, at) THEN <<"recalibrated">> ELSE <<>>

-----------------------------------------------------------------------------
(* The run.                                                                *)

(* Walk: every file below the stage folders, archive/ before notes/.       *)
Present(i) == live[i] # None \/ shelf[i] # None

Read(i) == IF live[i] # None THEN live[i] ELSE shelf[i]

Place(i) == CHOOSE k \in 1..Len(Order) : Order[k] = i

(* The first note in walk order that bears a name.                         *)
Bearers(b) ==
  LET bearers     == {i \in Ids : Present(i) /\ Base[i] = b}
      before(i, j) == \/ shelf[i] # None /\ shelf[j] = None
                      \/ (shelf[i] = None) = (shelf[j] = None) /\ Place(i) <= Place(j)
  IN {i \in bearers : \A j \in bearers : before(i, j)}

(* recentCitations: cited by another note that was edited lately.          *)
RecentlyCited(at) ==
  {i \in Ids : \E c \in Cites : /\ c[1] # i /\ Present(c[1]) /\ i \in Bearers(c[2])
                                /\ at - Read(c[1]).updated <= RefreshWithin}

Kinds == {"reinforced", "promoted", "dispute-cleared", "decayed", "recalibrated", "falsified",
          "disputed", "archived-faded", "archived-ancient", "graduated", "skipped"}

Run == [pc : {"idle", "note", "graduate"}, next : 1..(Len(Order) + 1), at : Hours,
        snap : [Ids -> Note \cup {None}], cited : SUBSET Ids, ask : Requests \cup {None},
        report : Seq(Kinds \X Ids), mark : Nat]

Current == Order[run.next]

(* resolveTargets: targets are notes that decay, each for one purpose.     *)
Refused(ask) ==
  LET targets == ask.reinforce \cup ask.falsify \cup ask.dispute \cup ask.graduate
  IN \/ \E i \in targets : live[i] = None \/ live[i].status = "falsified"
     \/ ask.reinforce \cap (ask.falsify \cup ask.dispute) # {}
     \/ ask.falsify \cap ask.dispute # {}

(* Walk refuses an id that two files have.                                 *)
Begin ==
  /\ run.pc = "idle"
  /\ budget.runs > 0
  /\ \A i \in Ids : live[i] = None \/ shelf[i] = None
  /\ \E ask \in Requests :
       /\ ~Refused(ask)
       /\ run' = [pc |-> "note", next |-> 1, at |-> now, snap |-> live,
                  cited |-> RecentlyCited(now), ask |-> ask, report |-> <<>>, mark |-> 0]
  /\ landed' = {} /\ settled' = {}
  /\ budget' = [budget EXCEPT !.runs = @ - 1]
  /\ UNCHANGED <<live, shelf, now>>

(* The next note's actions start where the report ends.                    *)
On(r) == [r EXCEPT !.pc = "note", !.next = @ + 1, !.mark = Len(r.report)]

Then(r, graduating) == IF graduating THEN [r EXCEPT !.pc = "graduate"] ELSE On(r)

(* Mutant: the last action is replaced.                                    *)
ReplaceLast(report, mark, line) == Append(SubSeq(report, 1, Len(report) - 1), line)

ReplaceSince(report, mark, line) == Append(SubSeq(report, 1, mark), line)

(* What a write that landed has added, a later skip does not take back.    *)
Marked(r) == [r EXCEPT !.mark = Len(r.report)]

(* Mutant: no look at the file before it is replaced.                      *)
NeverChanged(i) == FALSE

(* assertUnchanged; a file that is missing has not changed.                *)
ChangedDuringRun(i) == live[i] # None /\ live[i] # run.snap[i]

(* Mutant: what is left of a run that failed.                              *)
AbortKeepingMark ==
  /\ run' = [run EXCEPT !.pc = "idle", !.report = <<>>]
  /\ landed' = {}
  /\ UNCHANGED settled

(* The error is returned and the report is not.                            *)
Abort ==
  /\ run' = [run EXCEPT !.pc = "idle", !.report = <<>>, !.mark = 0]
  /\ landed' = {}
  /\ UNCHANGED settled

(* Note i as the run would have it, and what the report says of it.        *)
Staged(i, m, lines) ==
  [run EXCEPT !.snap[i] = m, !.report = @ \o [k \in 1..Len(lines) |-> <<lines[k], i>>]]

Skip(i, r) ==
  /\ run' = On([run EXCEPT !.report = ReplaceSince(r.report, run.mark, <<"skipped", i>>)])
  /\ UNCHANGED <<live, shelf, landed, settled>>

Land(i, lines) ==
  /\ landed' = landed \cup {<<lines[k], i>> : k \in 1..Len(lines)}
  /\ settled' = IF i \in run.ask.falsify \cup run.ask.dispute THEN settled ELSE settled \cup {i}

Fault == /\ budget.faults > 0
         /\ budget' = [budget EXCEPT !.faults = @ - 1]

(* rewrite: check, write, index.  A note that cannot be indexed ends the   *)
(* run with its file written.                                              *)
Rewrite(i, m, lines, graduating) ==
  LET r == Staged(i, m, lines)
  IN \/ /\ run.ask.dry
        /\ run' = Then(r, graduating)
        /\ UNCHANGED <<live, shelf, landed, settled, budget>>
     \/ /\ ~run.ask.dry /\ ChangedDuringRun(i)
        /\ Skip(i, r)
        /\ UNCHANGED budget
     \/ /\ ~run.ask.dry /\ ~ChangedDuringRun(i)
        /\ live' = [live EXCEPT ![i] = m]
        /\ \/ run' = Then(Marked(r), graduating) /\ Land(i, lines) /\ UNCHANGED budget
           \/ Fault /\ Abort
        /\ UNCHANGED shelf

(* move: the destination is looked at, then the source; the note is        *)
(* written and indexed at its destination before its source is deleted.    *)
Move(i, m, lines) ==
  LET r == Staged(i, m, lines)
  IN \/ /\ run.ask.dry
        /\ run' = On(r)
        /\ UNCHANGED <<live, shelf, landed, settled, budget>>
     \/ /\ ~run.ask.dry
        /\ \E j \in Ids : shelf[j] # None /\ Base[j] = Base[i]
        /\ Abort
        /\ UNCHANGED <<live, shelf, budget>>
     \/ /\ ~run.ask.dry
        /\ \A j \in Ids : shelf[j] = None \/ Base[j] # Base[i]
        /\ IF ChangedDuringRun(i)
           THEN Skip(i, r) /\ UNCHANGED budget
           ELSE /\ shelf' = [shelf EXCEPT ![i] = m]
                /\ \/ /\ live' = [live EXCEPT ![i] = None]
                      /\ run' = On(Marked(r))
                      /\ Land(i, lines)
                      /\ UNCHANGED budget
                   \/ Fault /\ Abort /\ UNCHANGED live

Deciding(i) == /\ run.pc = "note" /\ run.next <= Len(Order) /\ Current = i
               /\ UNCHANGED now

(* A falsified note is inert, whatever the run is asked for.               *)
Decays(i) == run.snap[i] # None /\ run.snap[i].status # "falsified"

(* Not under notes/, or falsified before.                                  *)
PassOver(i) ==
  /\ Deciding(i)
  /\ ~Decays(i)
  /\ run' = On(run)
  /\ UNCHANGED <<live, shelf, landed, settled, budget>>

(* A falsification or dispute without a reason ends the run.               *)
Contest(i) ==
  /\ Deciding(i) /\ Decays(i)
  /\ i \in run.ask.falsify \cup run.ask.dispute
  /\ LET status == IF i \in run.ask.falsify THEN "falsified" ELSE "disputed"
     IN IF run.ask.reasons THEN Rewrite(i, [run.snap[i] EXCEPT !.status = status], <<status>>, FALSE)
        ELSE Abort /\ UNCHANGED <<live, shelf, budget>>

(* Reinforcement, decay, archival; graduation comes last.                  *)
Assess(i) ==
  LET n       == run.snap[i]
      again   == i \in run.ask.reinforce
      cited   == i \in run.cited
      m       == Assessed(n, again, run.at)
      lines   == Lines(n, again, run.at)
      further == i \in run.ask.graduate
  IN /\ Deciding(i) /\ Decays(i)
     /\ i \notin run.ask.falsify \cup run.ask.dispute
     /\ \/ /\ WillFade(n, again, cited, run.at)
           /\ Move(i, [m EXCEPT !.status = "faded"], Append(lines, "archived-faded"))
        \/ /\ ~WillFade(n, again, cited, run.at) /\ WillArchive(n, again, cited, run.at)
           /\ Move(i, [m EXCEPT !.status = "archived"], Append(lines, "archived-ancient"))
        \/ /\ ~WillFade(n, again, cited, run.at) /\ ~WillArchive(n, again, cited, run.at)
           /\ IF Changed(n, again, run.at) THEN Rewrite(i, m, lines, further)
              ELSE /\ run' = Then(run, further)
                   /\ settled' = IF live[i] = n /\ ~run.ask.dry THEN settled \cup {i} ELSE settled
                   /\ UNCHANGED <<live, shelf, landed, budget>>

(* A stable note that nobody contests becomes canon; a request for any     *)
(* other ends the run.                                                     *)
Graduate(i) ==
  LET n == run.snap[i]
  IN /\ run.pc = "graduate" /\ Current = i
     /\ IF n.graduated \/ n.maturity # "stable" \/ n.status \in {"paused", "disputed"}
        THEN Abort /\ UNCHANGED <<live, shelf, budget>>
        ELSE Rewrite(i, [n EXCEPT !.graduated = TRUE], <<"graduated">>, FALSE)
     /\ UNCHANGED now

(* The report is appended to log.md and history commits; if either fails,  *)
(* the report is not returned.                                             *)
Finish ==
  /\ run.pc = "note" /\ run.next > Len(Order)
  /\ \/ run' = [run EXCEPT !.pc = "idle"] /\ UNCHANGED <<landed, settled, budget>>
     \/ ~run.ask.dry /\ Fault /\ Abort
  /\ UNCHANGED <<live, shelf, now>>

-----------------------------------------------------------------------------
(* Around it.                                                              *)

(* A call edits a note, or pauses it or takes the pause back.              *)
Edit(i) ==
  /\ live[i] # None
  /\ budget.edits > 0
  /\ \E status \in {live[i].status} \cup
                   (IF live[i].status \in {"active", "paused"} THEN {"active", "paused"} ELSE {}) :
       live' = [live EXCEPT ![i].status = status, ![i].updated = now]
  /\ settled' = settled \ {i}
  /\ budget' = [budget EXCEPT !.edits = @ - 1]
  /\ UNCHANGED <<shelf, now, run, landed>>

Tick ==
  /\ \E hour \in Hours : hour > now /\ now' = hour
  /\ UNCHANGED <<live, shelf, run, landed, settled, budget>>

(* The daemon dies between two notes.                                      *)
Crash ==
  /\ run.pc # "idle"
  /\ Fault /\ Abort
  /\ UNCHANGED <<live, shelf, now>>

Compile == \/ Begin \/ Finish
           \/ \E i \in Ids : PassOver(i) \/ Contest(i) \/ Assess(i) \/ Graduate(i)

Init ==
  /\ live \in Starts
  /\ shelf = [i \in Ids |-> None]
  /\ now = 0
  /\ run = [pc |-> "idle", next |-> 1, at |-> 0, snap |-> shelf, cited |-> {}, ask |-> None,
            report |-> <<>>, mark |-> 0]
  /\ landed = {}
  /\ settled = {}
  /\ budget \in Scenarios

Next == Compile \/ Tick \/ Crash \/ \E i \in Ids : Edit(i)

Spec == Init /\ [][Next]_vars

-----------------------------------------------------------------------------
TypeOK ==
  /\ live \in [Ids -> Note \cup {None}] /\ shelf \in [Ids -> Note \cup {None}]
  /\ now \in Hours
  /\ run \in Run /\ run.mark <= Len(run.report)
  /\ landed \subseteq Kinds \X Ids
  /\ settled \subseteq Ids
  /\ budget \in Bounds

(* What a run reports it did is what its writes have done, whichever of    *)
(* them were skipped: an agent that reads the report never repeats a       *)
(* reinforcement that landed or trusts one that did not (report.go,        *)
(* replaceSince; run.go:262-273).                                          *)
ReportIsTrue ==
  run.ask # None /\ ~run.ask.dry =>
    {run.report[k] : k \in 1..Len(run.report)} \ ({"skipped"} \X Ids) = landed

(* A confidence and a place that this stability gives a note of this age.  *)
Fits(n, s, age) == n.conf = Confidence(age, s) /\ ~Faded(age, s)

(* A note's confidence depends on when it was last reinforced and on how   *)
(* stable it is, not on how many runs there were or when: after any run a  *)
(* note that decays has the confidence of its age, and is still under      *)
(* notes/ only if that has not faded, however it is cited                  *)
(* (lifecycle.go:28-34, 59-64).  Its stability is the one it stores, or    *)
(* the one that was reconstructed and then rounded to be stored.           *)
AsTimed ==
  \A i \in settled :
    live[i] # None /\ ~Frozen(live[i]) =>
      LET n    == live[i]
          age  == Elapsed(n.anchor, run.at)
          held == InitStability(n.count, n.maturity)
      IN \/ Fits(n, <<n.stability, 1>>, age)
         \/ Hundredths(held) = n.stability /\ Fits(n, held, age)

(* So old that the hundredths which the stored stability has lost decide.  *)
Wavers(n, age) ==
  LET stored == <<n.stability, 1>>
      held   == InitStability(n.count, n.maturity)
  IN /\ Hundredths(held) = n.stability
     /\ \/ Confidence(age, held) # Confidence(age, stored)
        \/ Faded(age, held) # Faded(age, stored)

(* A second run at the same moment that is asked for nothing leaves every  *)
(* note alone that a run has decided on (io.go:40-42: the lifecycle is     *)
(* idempotent), except an old one that was shielded by being reinforced in *)
(* that run, or by a citation that an archived namesake has taken over,    *)
(* and one whose stability was rounded across a boundary.                  *)
Idempotent ==
  \A i \in settled :
    live[i] # None =>
      LET n     == live[i]
          cited == i \in RecentlyCited(run.at)
      IN /\ Changed(n, FALSE, run.at) \/ WillFade(n, FALSE, cited, run.at) =>
              Wavers(n, Elapsed(n.anchor, run.at))
         /\ WillArchive(n, FALSE, cited, run.at) =>
              \/ i \in run.ask.reinforce
              \/ \E j \in Ids \ {i} : Base[j] = Base[i] /\ shelf[j] # None

(* A note's stability is what its history has earned, however many runs,   *)
(* skips and failures lie between its reinforcements, and however many of  *)
(* those there were: rounding at each of them makes less than one part in  *)
(* two thousand of difference in all (lifecycle.go:85-96).                 *)
EarnedStability ==
  \A i \in Ids : Present(i) =>
    LET held   == StabilityOf(Read(i))
        earned == InitStability(Read(i).count, Read(i).maturity)
        error  == held[1] * earned[2] - earned[1] * held[2]
        slack  == (earned[1] * held[2]) \div 2000
    IN -slack <= error /\ error <= slack

(* What a run writes into a paused or graduated note that it was not asked *)
(* about leaves its confidence and its place alone, also when the note was *)
(* paused after the run had read it.                                       *)
ShieldedIsInert ==
  [][\A i \in Ids :
       live[i] # None /\ Frozen(live[i]) /\ run.pc # "idle" /\ i \notin run.ask.falsify
         => live'[i] # None /\ live'[i].conf = live[i].conf]_<<live, shelf>>

-----------------------------------------------------------------------------
(* list_decaying: notes that nobody has reinforced since a day.            *)

(* Mutant: contested notes are left out with the shielded ones.            *)
ListDecayingUndisputed(cutoff) ==
  {i \in Ids : /\ live[i] # None /\ live[i].status \notin {"falsified", "paused", "disputed"}
               /\ ~live[i].graduated /\ live[i].anchor <= cutoff}

ListDecaying(cutoff) ==
  {i \in Ids : /\ live[i] # None /\ live[i].status \notin {"falsified", "paused"}
               /\ ~live[i].graduated /\ live[i].anchor <= cutoff}

(* Whatever a run would archive as faded is on the list of notes that were *)
(* not reinforced for as long as a citation shields (store/notes.go        *)
(* ListDecaying: the two never disagree about a note's age).               *)
Forewarned ==
  \A i \in Ids :
    live[i] # None /\ live[i].status # "falsified" =>
      (WillFade(live[i], FALSE, i \in RecentlyCited(now), now)
         => i \in ListDecaying(now - RefreshBudget))

=============================================================================
