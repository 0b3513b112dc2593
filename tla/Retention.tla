------------------------------- MODULE Retention -------------------------------
(***************************************************************************)
(* The sweeps of audit/retention.go: every replica that serves deletes the *)
(* audit entries that are older than the retention, a batch at a time,     *)
(* while the writers insert new ones and another replica sweeps as well.   *)
(***************************************************************************)
EXTENDS Startup, FiniteSetsExt

CONSTANTS User,           \* the owners of credentials and of audit entries
          RetentionDays,
          Batch,          \* rows of one DELETE
          EntryId         \* ids of audit entries

ASSUME RetentionAssumption == RetentionDays \in Nat \ {0} /\ Batch \in Nat \ {0}

VARIABLES today,    \* the day
          trail,    \* vault.audit_log
          sweeper   \* [Replica -> step, cutoff and picked rows of Retention.Run]

sweepVars == <<today, trail, sweeper>>

EntryRow == [id : EntryId, user : User, day : Nat]
Off == [step |-> "off", cutoff |-> 0, picked |-> {}]

SweepTypeOK ==
    /\ today \in Nat
    /\ trail \subseteq EntryRow
    /\ \A p \in Replica : /\ sweeper[p].step \in {"off", "idle", "select", "delete"}
                          /\ sweeper[p].cutoff \in Int
                          /\ sweeper[p].picked \subseteq EntryId
                          /\ sweeper[p].step # "off" => boot[p] = "up"

Ids(rows) == {e.id : e \in rows}

NextDay == /\ Spend("day") /\ today' = today + 1
           /\ UNCHANGED <<trail, sweeper>>

\* A writer inserts an entry that was emitted today, or late yesterday.
NewEntry(u, d) ==
    /\ d \in Nat /\ Spend("entry")
    /\ trail' = trail \cup {[id |-> budget["entry"], user |-> u, day |-> d]}
    /\ UNCHANGED <<today, sweeper>>

Sweeps(p, s) == sweeper' = [sweeper EXCEPT ![p] = s]

\* The first sweep waits for the start to settle; every later one for the ticker.
StartSweeping(p) == /\ boot[p] = "up" /\ sweeper[p] = Off /\ Spend("settle")
                    /\ Sweeps(p, [Off EXCEPT !.step = "idle"])
                    /\ UNCHANGED <<today, trail>>

BeginSweep(p) ==
    /\ sweeper[p].step = "idle"
    /\ Sweeps(p, [step |-> "select", cutoff |-> today - RetentionDays, picked |-> {}])
    /\ UNCHANGED <<today, trail, budget>>

\* Mutant: the bound of the cutoff day is included.
OldAndLast(cutoff) == {e \in trail : e.day <= cutoff}

Old(cutoff) == {e \in trail : e.day < cutoff}

\* The subselect of the DELETE: the oldest rows before the cutoff.
Select(p) ==
    /\ sweeper[p].step = "select"
    /\ \E rows \in SUBSET Old(sweeper[p].cutoff) :
         /\ Cardinality(rows) = Min({Batch, Cardinality(Old(sweeper[p].cutoff))})
         /\ \A e \in rows, f \in Old(sweeper[p].cutoff) \ rows : e.day <= f.day
         /\ Sweeps(p, [sweeper[p] EXCEPT !.step = "delete", !.picked = Ids(rows)])
    /\ UNCHANGED <<today, trail, budget>>

\* The DELETE itself: rows that another sweep has removed meanwhile do not count, and
\* a batch that is not full ends the sweep.
Delete(p) ==
    /\ sweeper[p].step = "delete"
    /\ LET gone == {e \in trail : e.id \in sweeper[p].picked}
       IN  /\ trail' = trail \ gone
           /\ Sweeps(p, IF Cardinality(gone) < Batch
                          THEN [Off EXCEPT !.step = "idle"]
                          ELSE [sweeper[p] EXCEPT !.step = "select", !.picked = {}])
    /\ UNCHANGED <<today, budget>>

\* Mutant: an error ends the goroutine.
SweepEnds(p) == /\ sweeper[p].step \in {"select", "delete"} /\ Spend("fault")
                /\ Sweeps(p, Off)
                /\ UNCHANGED <<today, trail>>

\* An error ends the sweep; the next interval tries again.
SweepFails(p) == /\ sweeper[p].step \in {"select", "delete"} /\ Spend("fault")
                 /\ Sweeps(p, [Off EXCEPT !.step = "idle"])
                 /\ UNCHANGED <<today, trail>>

SweepProceeds(p) == BeginSweep(p) \/ Select(p) \/ Delete(p)

-----------------------------------------------------------------------------
KeepsYoungEntries == \A e \in trail \ trail' : today - e.day > RetentionDays

\* A sweep that takes days, and two that overlap, delete nothing that is still within
\* the retention (retention.go:18-19).
YoungEntriesStay == [][KeepsYoungEntries]_sweepVars

\* Everything that has outlived the retention goes, although a batch that another
\* replica has emptied ends a sweep early and a failed one stops half way: "so the
\* append-only table does not grow without bound" (retention.go:18-19).
OldEntriesGo ==
    \A e \in EntryId : (\E row \in trail : row.id = e /\ today - row.day > RetentionDays)
                         ~> e \notin Ids(trail)
=============================================================================
