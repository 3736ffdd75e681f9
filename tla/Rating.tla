-------------------------------- MODULE Rating --------------------------------
(***************************************************************************)
(* services/rating.service.ts over models/Rating.ts: the scores of a       *)
(* rating, their average, and its status from creation to deletion.        *)
(*                                                                         *)
(* world.aged: it is more than fourteen days since the rating was made.    *)
(***************************************************************************)
EXTENDS MongooseDocument, Functions

CONSTANT ScoreLists \* the lists of scores raters give, none of them empty

Statuses == {"pending", "published", "disputed", "resolved", "deleted"}

Arrays == {"scores"}

Rating == [status : Statuses, scores : ScoreLists, average : 10..50,
           response : BOOLEAN, version : Nat]

-----------------------------------------------------------------------------
\* "score.weight || 1"
Weight(s) == IF s.weight = 0 THEN 1 ELSE s.weight

\* calculateAverageScore, in tenths; a half is rounded up.
Average(scores) ==
    LET total == FoldFunction(LAMBDA s, n : n + Weight(s), 0, scores)
        sum   == FoldFunction(LAMBDA s, n : n + s.score * Weight(s), 0, scores)
    IN  (20 * sum + total) \div (2 * total)

WithScores(d, scores) == [d EXCEPT !.scores = scores, !.average = Average(scores)]

Disputable == ~ world.aged /\ stored.status \notin {"disputed", "resolved"}

-----------------------------------------------------------------------------
(* Faulty variants; none of them takes part in Spec. *)

\* updateRating averages before it takes the scores.
UpdateAveragingFirst(r, scores) ==
    Change(r, "updateRating", [stored EXCEPT !.scores = scores], Arrays)

-----------------------------------------------------------------------------
\* updateRating with scores; without, it changes texts only
UpdateRating(r, scores) == Change(r, "updateRating", WithScores(stored, scores), Arrays)

UpdateTexts(r) == Change(r, "updateRating", stored, {})

\* publishRating, whatever the status
PublishRating(r) == Change(r, "publishRating", [stored EXCEPT !.status = "published"], {})

DisputeRating(r) ==
    /\ Disputable
    /\ Change(r, "disputeRating", [stored EXCEPT !.status = "disputed"], {})

ResolveDispute(r, action, scores) ==
    /\ stored.status = "disputed"
    /\ \/ /\ action = "keep"
          /\ Change(r, "resolveDispute", [stored EXCEPT !.status = "published"], {})
       \/ /\ action = "modify"
          /\ Change(r, "resolveDispute",
                    WithScores([stored EXCEPT !.status = "published"], scores), Arrays)
       \/ /\ action = "delete"
          /\ Change(r, "resolveDispute", [stored EXCEPT !.status = "deleted"], {})

\* addResponse replaces an earlier response.
AddResponse(r) == Change(r, "addResponse", [stored EXCEPT !.response = TRUE], {})

DeleteRating(r) == Change(r, "deleteRating", [stored EXCEPT !.status = "deleted"], {})

Save(r) == SaveCopy(r, Arrays, world)

FourteenDaysPass == WorldChanges([aged |-> TRUE])

-----------------------------------------------------------------------------
\* createRating
Init == /\ \E scores \in ScoreLists :
               stored = WithScores([status |-> "pending", scores |-> scores, average |-> 0,
                                    response |-> FALSE, version |-> 0], scores)
        /\ copy = NoCopies
        /\ world = [aged |-> FALSE]
        /\ saves = 0

Next == \/ \E r \in Requests :
               \/ \E scores \in ScoreLists :
                      \/ UpdateRating(r, scores)
                      \/ \E action \in {"keep", "modify", "delete"} :
                             ResolveDispute(r, action, scores)
               \/ UpdateTexts(r)
               \/ PublishRating(r)
               \/ DisputeRating(r)
               \/ AddResponse(r)
               \/ DeleteRating(r)
               \/ Save(r)
               \/ AbortCopy(r)
        \/ FourteenDaysPass

Spec == Init /\ [][Next]_document

-----------------------------------------------------------------------------
\* Every variable has its type.
TypeOK == /\ stored \in Rating
          /\ CopiesTyped(Rating)
          /\ world.aged \in BOOLEAN
          /\ saves \in 0..MaxSaves

\* The stored average is the one of the stored scores, although both are
\* calculated on copies and sent as two paths: scores are replaced as a whole,
\* which Mongoose does only if the version is the copy's.
AverageOfScores == stored.average = Average(stored.scores)
=============================================================================
