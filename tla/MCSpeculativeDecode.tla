------------------------ MODULE MCSpeculativeDecode ------------------------
(* A small vocabulary, two prompts, and a verifier that tells any two        *)
(* sequences of rows apart often enough to notice a lost or moved row.       *)
EXTENDS SpeculativeDecode

MCPrompts == {<<0>>, <<2, 1>>}

MCArgmax(rows) ==
    FoldLeft(LAMBDA h, r : (2 * h + r.token + r.position) % 7, 1, rows) % 3

Request(g, p, m, k, n, t, d, trim, pf, f) ==
    [gen |-> g, prompt |-> p, max |-> m, k |-> k, native |-> n, tree |-> t,
     depth |-> d, trim |-> trim, passes |-> 2, prefill |-> pf, final |-> f,
     window |-> 0, budget |-> 0]

\* A layer is 2 bytes, 3 to 6 once it has run: a budget for about one layer and
\* one for about two, without and with layers taken ahead.
Paged(g, p, m, w, b) ==
    [Request(g, p, m, 1, FALSE, FALSE, 1, FALSE, FALSE, FALSE)
        EXCEPT !.window = w, !.budget = b]

MCRequests ==
    LET sessions == {Request(g, p, m, k, FALSE, FALSE, 1, FALSE, FALSE, FALSE) :
                       g \in {"stateful", "stateless", "cached"},
                       p \in MCPrompts, m \in {1, 4}, k \in {1, 3}}
        natives  == {Request("stateful", p, 3, 1, TRUE, FALSE, 1, FALSE, FALSE, FALSE) :
                       p \in MCPrompts}
        rows     == {Request("mtp", p, m, 3, FALSE, FALSE, 1, FALSE, FALSE, FALSE) :
                       p \in MCPrompts, m \in {1, 4}}
        trees    == {Request("mtp", p, 3, 1, FALSE, TRUE, d, trim, FALSE, FALSE) :
                       p \in MCPrompts, d \in {1, 3}, trim \in BOOLEAN}
        plain    == {Request("plain", p, m, 1, FALSE, FALSE, 1, FALSE, pf, f) :
                       p \in MCPrompts, m \in {0, 2}, pf \in BOOLEAN, f \in BOOLEAN}
        paged    == {Paged("paged", <<2, 1>>, m, w, b) :
                       m \in {0, 1}, w \in {0, 2}, b \in {5, 9}}
        probes   == {Paged(g, <<0>>, 0, 2, b) :
                       g \in {"probe", "remote"}, b \in {5, 9}}
    IN  sessions \cup natives \cup rows \cup trees \cup plain \cup paged \cup probes

\* A verifier whose layers decode single tokens natively, asked for two at a time.
MCNativeRequests ==
    {Request("stateful", p, 4, 2, TRUE, FALSE, 1, FALSE, FALSE, FALSE) :
       p \in MCPrompts}
=============================================================================
