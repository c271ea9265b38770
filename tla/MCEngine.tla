------------------------------ MODULE MCEngine ------------------------------
(* Small workflows: each has a shape that one part of the engine is for.   *)
EXTENDS Engine, TLC

CONSTANTS S, A, B, M, E

MCNodes == {S, A, B, M, E}

Wire(from, output, to, input) == [from |-> from, output |-> output, to |-> to, input |-> input]

Order(seq) == [n \in MCNodes |-> CHOOSE i \in DOMAIN seq : seq[i] = n]

Plain ==
  [edges |-> <<>>, start |-> S, v1 |-> TRUE, rank |-> Order(<<S, A, B, M, E>>),
   outputs |-> [n \in MCNodes |-> 1], onError |-> [n \in MCNodes |-> "stop"],
   tries |-> [n \in MCNodes |-> 1], always |-> {}, pinned |-> {}, passing |-> {}, waits |-> {},
   destination |-> None, given |-> FALSE, timeout |-> FALSE]

\* A tree whose edges are not listed in canvas order; A has two outputs, and
\* an edge is drawn twice.
Tree ==
  [Plain EXCEPT !.edges = <<Wire(S, 0, B, 0), Wire(S, 0, A, 0), Wire(A, 0, M, 0), Wire(A, 1, E, 0),
                            Wire(A, 1, E, 0)>>,
                !.outputs = [@ EXCEPT ![A] = 2], !.tries = [@ EXCEPT ![A] = 2],
                !.always = {S}]

\* Two branches that meet; B also has an error output.
Diamond ==
  [Plain EXCEPT !.edges = <<Wire(S, 0, A, 0), Wire(S, 0, B, 0), Wire(A, 0, M, 0),
                            Wire(B, 0, M, 1), Wire(B, 1, E, 0)>>,
                !.onError = [@ EXCEPT ![B] = "output", ![A] = "regular"],
                !.passing = {E}]

\* A loop at A; each round sends M one batch directly and one through B.
Loop ==
  [Plain EXCEPT !.edges = <<Wire(S, 0, A, 0), Wire(A, 0, B, 0), Wire(A, 0, M, 1),
                            Wire(A, 1, E, 0), Wire(B, 0, A, 0), Wire(B, 0, M, 0)>>,
                !.outputs = [@ EXCEPT ![A] = 2], !.given = TRUE]

\* A Wait node next to another branch, and a timeout.
Waits ==
  [Plain EXCEPT !.edges = <<Wire(S, 0, A, 0), Wire(S, 0, B, 0), Wire(A, 0, E, 0),
                            Wire(B, 0, M, 0), Wire(E, 0, M, 1)>>,
                !.waits = {A}, !.timeout = TRUE]

\* The run up to B of the editor.
Partial == [Diamond EXCEPT !.destination = B, !.v1 = FALSE]

\* The join A waits for the join B, which may miss an input; A is pinned.
Chain ==
  [Plain EXCEPT !.edges = <<Wire(S, 0, A, 0), Wire(S, 0, E, 0), Wire(S, 1, B, 0),
                            Wire(E, 0, B, 1), Wire(B, 0, A, 1), Wire(A, 0, M, 0)>>,
                !.outputs = [@ EXCEPT ![S] = 2], !.pinned = {A}]

\* Both outputs of A go to one input of M, and B joins the loop.
Rounds ==
  [Plain EXCEPT !.edges = <<Wire(S, 0, A, 0), Wire(A, 0, M, 0), Wire(A, 0, B, 0),
                            Wire(A, 1, M, 0), Wire(A, 1, B, 1), Wire(B, 0, M, 1),
                            Wire(M, 0, A, 0)>>,
                !.outputs = [@ EXCEPT ![A] = 2]]

\* A join of three inputs, one of which gets two batches.
Triple ==
  [Plain EXCEPT !.edges = <<Wire(S, 0, A, 0), Wire(A, 0, M, 0), Wire(A, 0, B, 0),
                            Wire(A, 1, M, 0), Wire(B, 0, M, 1), Wire(B, 1, E, 0),
                            Wire(E, 0, M, 2)>>,
                !.outputs = [@ EXCEPT ![A] = 2, ![B] = 2]]

MCWorkflows ==
  {Triple, Chain, [Chain EXCEPT !.v1 = FALSE], Rounds, [Rounds EXCEPT !.v1 = FALSE], Tree, [Tree EXCEPT !.v1 = FALSE], Diamond, [Diamond EXCEPT !.v1 = FALSE], Loop,
   [Loop EXCEPT !.v1 = FALSE], Waits, Partial}
=============================================================================
