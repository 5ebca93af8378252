------------------------------- MODULE Routing -------------------------------
(***************************************************************************)
(* Which experts a token is sent to and with which weight: moe.rs `route`, *)
(* `union_and_weights` and `subcols`, dsv4.rs `route_topk` and             *)
(* `route_hash`.                                                           *)
(*                                                                         *)
(* A score is the value of the scoring function (sigmoid, exp, or the root *)
(* of softplus) on a router logit; the scores are small naturals.  Weights *)
(* are counted in Unit-ths, with Unit divisible by every sum of scores, so *)
(* that the divisions of the code are exact here.                          *)
(***************************************************************************)
EXTENDS Integers, FiniteSets, Sequences, SequencesExt, Functions

CONSTANTS NumExperts,   \* experts of a layer, numbered from 0
          Unit          \* what the weight 1.0 is counted as

ASSUME RoutingAssumption == NumExperts \in Nat \ {0} /\ Unit \in Nat \ {0}

Experts == 0 .. NumExperts - 1

\* Strict(s) is s.  TLC computes its elements once, not at every application.
Strict(s) == s \o <<>>

\* The numbers up to n that are in S, in ascending order.
Ascending(n, S) ==
    LET asc[i \in 0 .. n + 1] ==
          IF i = 0 THEN <<>>
          ELSE IF i - 1 \in S THEN Append(asc[i - 1], i - 1) ELSE asc[i - 1]
    IN asc[n + 1]

Smaller(a, b) == IF a < b THEN a ELSE b

\* The scan for the best expert not chosen yet: `>` keeps the lower id of two equals.
BestOf(choice, rest) ==
    CHOOSE e \in rest : \A f \in rest :
        choice[e] > choice[f] \/ (choice[e] = choice[f] /\ e <= f)

\* The k best, best first.
GreedyTopK(choice, k) ==
    LET rank(e) == Cardinality({f \in Experts : f # e /\ BestOf(choice, {e, f}) = f})
    IN Strict([i \in 1 .. k |-> CHOOSE e \in Experts : rank(e) = i - 1])

\* Weights over their sum, as the code's `/ sum` does; a zero sum leaves zeros.
Normalise(w) ==
    LET sum == SumFunction(w)
    IN Strict([i \in DOMAIN w |-> IF sum = 0 THEN 0 ELSE (w[i] * Unit) \div sum])

\* route: the bias moves the selection, never the weight; softmax has no bias.
route(kind, norm_topk, score, bias, topk) ==
    LET k == Smaller(topk, NumExperts)
        p == IF kind = "softmax" THEN [e \in Experts |-> (score[e] * Unit) \div SumFunction(score)] ELSE score
        choice == IF kind = "softmax" THEN p ELSE [e \in Experts |-> p[e] + bias[e]]
        idx == GreedyTopK(choice, k)
        w == Strict([i \in 1 .. k |-> p[idx[i]]])
    IN [idx |-> idx, w |-> IF norm_topk THEN Normalise(w) ELSE w]

\* (expert, weight) pairs in the order of the expert ids.
ById(pairs) ==
    LET es == Ascending(NumExperts - 1, {p[1] : p \in pairs})
    IN Strict([i \in DOMAIN es |-> CHOOSE p \in pairs : p[1] = es[i]])

\* route_topk: as route, handed out in the order of the expert ids.
route_topk(score, bias, topk) ==
    LET k == Smaller(topk, NumExperts)
        order == GreedyTopK([e \in Experts |-> score[e] + bias[e]], k)
        w == Normalise([i \in 1 .. k |-> score[order[i]]])
    IN ById({<<order[i], w[i]>> : i \in 1 .. k})

\* The entries of a table row that name an expert.
Valid(eids) ==
    LET at == Ascending(Len(eids), {i \in DOMAIN eids : eids[i] < NumExperts})
    IN Strict([j \in DOMAIN at |-> eids[at[j]]])

\* route_hash: the experts of the token's table row; a repeated one is merged by adding.
route_hash(score, eids) ==
    LET valid == Valid(eids)
        scores == [i \in DOMAIN valid |-> score[valid[i]]]
        merged(e) == SumFunction([i \in DOMAIN valid |-> IF valid[i] = e THEN scores[i] ELSE 0])
        sum == SumFunction(scores)
    IN ById({<<e, IF sum = 0 THEN 0 ELSE (merged(e) * Unit) \div sum>> : e \in ToSet(valid)})

\* dsv4_moe's fixed-stride rows: the picked pairs, then the first pick at weight 0.
Strided(picked, k) ==
    [idx |-> Strict([j \in 1 .. k |-> IF j <= Len(picked) THEN picked[j][1]
                                      ELSE IF picked = <<>> THEN 0 ELSE picked[1][1]]),
     w   |-> Strict([j \in 1 .. k |-> IF j <= Len(picked) THEN picked[j][2] ELSE 0])]

\* The experts of the batch in order of first use, and per token the weight of each:
\* a slot's weight is assigned, so of two slots of one token for one expert the last holds.
union_and_weights(rows) ==
    LET k == Len(rows[1].idx)
        idxs == Strict([p \in 1 .. Len(rows) * k |-> rows[((p - 1) \div k) + 1].idx[((p - 1) % k) + 1]])
        firsts == {p \in DOMAIN idxs : \A q \in 1 .. p - 1 : idxs[q] # idxs[p]}
        order == Ascending(Len(idxs), firsts)
        uniq == Strict([ui \in DOMAIN order |-> idxs[order[ui]]])
        slots(t, e) == {j \in 1 .. k : rows[t].idx[j] = e}
        last(S) == CHOOSE j \in S : \A i \in S : i <= j
    IN [uniq |-> uniq,
        w_mat |-> Strict([t \in DOMAIN rows |-> Strict([ui \in DOMAIN uniq |->
                            IF slots(t, uniq[ui]) = {} THEN 0
                            ELSE rows[t].w[last(slots(t, uniq[ui]))]])])]

\* The columns `cols` of the weight matrix, in that order.
subcols(w_mat, cols) == Strict([t \in DOMAIN w_mat |-> Strict([j \in DOMAIN cols |-> w_mat[t][cols[j]]])])

-----------------------------------------------------------------------------
(* What routing promises, said without the loops.                          *)

\* e is among the k best: fewer than k experts beat it.
Chosen(choice, k, e) ==
    Cardinality({f \in Experts : choice[f] > choice[e] \/ (choice[f] = choice[e] /\ f < e)}) < k

ScoreOver(s, sum) == IF sum = 0 THEN 0 ELSE (s * Unit) \div sum

\* The weight of expert e for a token whose k best by `choice` share by `score`.
DeclaredTopK(choice, score, k, e) ==
    LET best == {f \in Experts : Chosen(choice, k, f)}
    IN IF e \in best THEN ScoreOver(score[e], SumFunction([f \in best |-> score[f]])) ELSE 0

\* The weight of expert e for a token that its table row sends to `eids`, repeats counted.
DeclaredHash(score, eids, e) ==
    LET valid == Valid(eids)
        times == Cardinality({i \in DOMAIN valid : valid[i] = e})
    IN IF times = 0 THEN 0
       ELSE ScoreOver(times * score[e], SumFunction([i \in DOMAIN valid |-> score[valid[i]]]))
=============================================================================
