-------------------------- MODULE MCDagValidation ---------------------------
(* Every definition of up to three entries over three ids and one undefined *)
(* id, and a sample of the longer lists of dependencies.                    *)
EXTENDS DagValidation

Ids3 == {"a", "b", "c"}
Names == Ids3 \cup {"undefined"}

\* Every list of distinct dependencies in one order, and one that repeats a job.
Lists == {<<>>, <<"a">>, <<"b">>, <<"c">>, <<"undefined">>, <<"a", "b">>, <<"a", "c">>,
          <<"b", "c">>, <<"a", "b", "c">>, <<"a", "a">>}
Item(j, l, w) == [job_id |-> j, depends_on |-> l, within_policy |-> w, within_size |-> TRUE]
Items == {Item(j, l, TRUE) : j \in Ids3, l \in Lists}

MCDefinitions ==
  {<<>>, <<Item("a", <<>>, FALSE)>>, <<[Item("a", <<>>, TRUE) EXCEPT !.within_size = FALSE]>>,
   <<Item("a", <<>>, TRUE), Item("b", <<>>, TRUE), Item("c", <<>>, TRUE), Item("a", <<>>, TRUE)>>}
  \cup {<<x>> : x \in Items} \cup {<<x, y>> : x, y \in Items}
  \cup {<<Item("a", k, TRUE), Item("b", l, TRUE), Item("c", m, TRUE)>> : k, l, m \in Lists}
=============================================================================
