--------------------------- MODULE UnconfirmedCache ---------------------------
(***************************************************************************)
(* NRS.getUnconfirmedTransactionsFromCache and                            *)
(* NRS.completeUnconfirmedTransactionDetails: a filter over the poller's *)
(* NRS.unconfirmedTransactions that fills in, on the cached objects       *)
(* themselves, what the UI shows of a digital-goods transaction.          *)
(*                                                                         *)
(* A transaction is a record with the fields the code reads or writes;    *)
(* `attachment` stands for attachment.goods.  The caller's `fields` is a *)
(* sequence of <<key, value>> pairs in for-in order, Undefined when not   *)
(* given.  getDGSGood is requested with async = false, so its callback    *)
(* has run when sendRequest returns: each request is answered in place by *)
(* a member of Answers (a found good, or an error response, which has no *)
(* name and no seller).                                                   *)
(***************************************************************************)
EXTENDS Integers, SequencesExt

CONSTANTS
    Undefined,   \* the JS undefined
    False        \* the JS false the lookup returns when nothing is found

\* typeof x == "number" ? [x] : x.  An argument is [number |-> n] or
\* [array |-> a].
AsArray(x) == IF "number" \in DOMAIN x THEN <<x.number>> ELSE x.array

\* Seeded fault: the subtype test without its length guard, so [] matches
\* no subtype.
Skipped_NoLengthGuard(t, type, subtype) ==
    \/ t.type \notin ToSet(type)
    \/ t.subtype \notin ToSet(subtype)

\* The loop's skip test: type.indexOf(t.type) == -1 ||
\* (subtype.length > 0 && subtype.indexOf(t.subtype) == -1).
Skipped(t, type, subtype) ==
    \/ t.type \notin ToSet(type)
    \/ Len(subtype) > 0 /\ t.subtype \notin ToSet(subtype)

\* The positions the loop reaches a push or a return at, in order: once
\* per matching key of `fields`, once when `fields` is not given.
Hits(cache, type, subtype, fields) ==
    FlattenSeq([i \in 1..Len(cache) |->
        IF Skipped(cache[i], type, subtype) THEN <<>>
        ELSE IF fields = Undefined THEN <<i>>
        ELSE FlattenSeq([k \in 1..Len(fields) |->
                 IF cache[i][fields[k][1]] = fields[k][2] THEN <<i>> ELSE <<>>])])

\* completeUnconfirmedTransactionDetails on one object; `answer` is what
\* the getDGSGood callback receives if a request is made.
Complete(t, answer) ==
    IF t.type = 3 /\ t.subtype = 4 /\ t.name = Undefined    \* !name
    THEN [t EXCEPT !.name = answer.name, !.buyer = t.sender, !.seller = answer.seller]
    ELSE IF t.type = 3 /\ t.subtype = 0
    THEN [t EXCEPT !.goods = t.transaction]
    ELSE t

\* Seeded fault: the list is completed as copies ($.extend({}, val)) and
\* the cache is left as it was.
CompleteEach_Copy(cache, hits, answers) ==
    [result |-> [k \in 1..Len(hits) |-> Complete(cache[hits[k]], answers[k])],
     cache  |-> cache]

\* The $.each over the pushed list.  Every entry is the cached object
\* itself, so each completion lands in the cache and is seen by a later
\* entry of the same object, and the list shows the objects as they are
\* at the end.  answers[k] answers the request of the k-th entry.
CompleteEach(cache, hits, answers) ==
    LET c == FoldLeftDomain(LAMBDA c0, k : [c0 EXCEPT ![hits[k]] = Complete(@, answers[k])],
                            cache, hits)
    IN  [result |-> [k \in 1..Len(hits) |-> c[hits[k]]], cache |-> c]

\* Seeded fault: the single lookup keeps scanning and answers the last
\* hit instead of returning at the first.
Picked_Last(hits) == hits[Len(hits)]

\* A single lookup returns at the first hit.
Picked(hits) == hits[1]

\* The call: [result |-> False, a transaction or a list of them,
\*            cache  |-> NRS.unconfirmedTransactions afterwards].
\* `answers` has an entry for every hit.
GetUnconfirmedTransactionsFromCache(cache, type0, subtype0, fields, single, answers) ==
    LET type    == AsArray(type0)
        subtype == AsArray(subtype0)
        hits    == Hits(cache, type, subtype, fields)
    IN  CASE cache = <<>> \/ hits = <<>> ->
                 [result |-> False, cache |-> cache]
          [] single ->
                 LET c == [cache EXCEPT ![Picked(hits)] = Complete(@, answers[1])]
                 IN  [result |-> c[Picked(hits)], cache |-> c]
          [] OTHER ->
                 CompleteEach(cache, hits, answers)

=============================================================================
