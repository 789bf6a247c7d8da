------------------------------- MODULE Mapper -------------------------------
(***************************************************************************)
(* How a mapper chooses the PE of a task: Mapper::mapImpl with the findPE  *)
(* of BestFitMapper and of RoundRobinMapper, over the PEs of one cluster.  *)
(* With one cluster no communication is inserted and the cost of moving    *)
(* data cannot change the choice, so neither is computed here.             *)
(***************************************************************************)
EXTENDS TaskLauncher

CONSTANTS
    GRTPE,      \* Platform::spiderGRTPE
    Enabled     \* the PEs that are not disabled (PE::enabled)

ASSUME MapperAssumption ==
    /\ GRTPE \in LRT
    /\ Enabled \subseteq LRT

MappingPolicy == {"BEST_FIT", "ROUND_ROBIN"}

\* What RTInfo says of a vertex: isPEMappable and timingOnPE.
RTInfo == [mappable: SUBSET LRT, timing: [LRT -> Nat]]

Allowed(info) == Enabled \cap info.mappable

GRTOverhead == 10

NoPE == [pe |-> -1, endTime |-> -1, idleTime |-> -1]    \* nullptr, UINT_FAST64_MAX

-----------------------------------------------------------------------------
\* Mutant: the time the PE is free at is not taken into account.
Candidate_Idle(info, peEndTime, minStartTime, pe) ==
    [pe |-> pe, endTime |-> minStartTime + info.timing[pe], idleTime |-> 0]

\* What one turn of the loop of findPE computes about a PE.  The GRT's own PE is
\* made to look busier than it is, so that the others are preferred to it.
Candidate(info, peEndTime, minStartTime, pe) ==
    LET readyTime == peEndTime[pe] + (IF pe = GRTPE THEN GRTOverhead ELSE 0)
        startTime == Max({readyTime, minStartTime})
    IN  [pe |-> pe, endTime |-> startTime + info.timing[pe],
         idleTime |-> startTime - readyTime]

\* The best PE so far and the next one.  A PE that ends sooner is taken, but the
\* idle time kept is the smallest met.
Better(best, next) ==
    CASE best = NoPE -> next
      [] next.endTime < best.endTime ->
            [next EXCEPT !.idleTime = Min({next.idleTime, best.idleTime})]
      [] next.endTime = best.endTime /\ next.idleTime < best.idleTime -> next
      [] OTHER -> best

\* BestFitMapper::findPE, the PEs in the order of their indices.
BestFit(info, peEndTime, minStartTime) ==
    LET best[n \in 0 .. LRTCount] ==
            IF n = 0 THEN NoPE
            ELSE IF n - 1 \in Allowed(info)
                 THEN Better(best[n - 1], Candidate(info, peEndTime, minStartTime, n - 1))
                 ELSE best[n - 1]
    IN  best[LRTCount].pe

\* RoundRobinMapper::findPE: from the cursor, the first PE the task may run on.
RoundRobin(info, cursor) ==
    LET steps == {n \in 0 .. LRTCount - 1 : (cursor + n) % LRTCount \in Allowed(info)}
    IN  (cursor + Min(steps)) % LRTCount

\* The cursor moves past the PE that was found.
NextCursor(pe) == (pe + 1) % LRTCount

=============================================================================
