----------------------------- MODULE Pipelining -----------------------------
(***************************************************************************)
(* pipelining/pipeline.go as pure operators, for one cycle per stage.      *)
(*                                                                         *)
(* A pipeline is a function from lanes to rows of stages; a stage holds an *)
(* element or Hole.  Elements that leave the last stage go to the          *)
(* post-pipeline buffer, which may be full.  A pipeline of no stage hands  *)
(* every element straight to that buffer.                                  *)
(***************************************************************************)
EXTENDS Integers, Sequences, SequencesExt, Filtering

Hole == 0  \* elements are positive

EmptyPipeline(width, numStage) == [lane \in 1 .. width |->
                                     [i \in 1 .. numStage |-> Hole]]

InPipeline(pipe) ==
  (UNION {{pipe[lane][i] : i \in DOMAIN pipe[lane]} : lane \in DOMAIN pipe})
    \ {Hole}

CanAccept(pipe, post, postCap) ==
  IF pipe[1] = <<>> THEN Len(post) < postCap
                    ELSE \E lane \in DOMAIN pipe : pipe[lane][1] = Hole

\* Accept: the first lane whose first stage is free takes the element.
Accept(pipe, post, e) ==
  IF pipe[1] = <<>>
    THEN [pipe |-> pipe, post |-> Append(post, e)]
    ELSE LET lane == Min({k \in DOMAIN pipe : pipe[k][1] = Hole})
         IN [pipe |-> [pipe EXCEPT ![lane][1] = e], post |-> post]

\* One lane moves when its last element left, when leaves is TRUE: an element
\* moves on if any stage ahead of it is or becomes free.
Shifted(row, leaves) ==
  LET n == Len(row)
      after == IF leaves THEN [row EXCEPT ![n] = Hole] ELSE row
      free(i) == \E j \in i + 1 .. n : after[j] = Hole
  IN [i \in 1 .. n |->
        IF i > 1 /\ free(i - 1) THEN after[i - 1]
        ELSE IF free(i) THEN Hole
        ELSE after[i]]

\* The lanes whose last element finds room in the buffer, lower lanes first.
Leaving(pipe, post, postCap) ==
  LET full == {lane \in DOMAIN pipe :
                 pipe[lane] # <<>> /\ Last(pipe[lane]) # Hole}
      before(lane) == Cardinality({k \in full : k < lane})
  IN {lane \in full : Len(post) + before(lane) < postCap}

\* Tick: what the pipeline and its buffer are afterwards.
TickPipeline(pipe, post, postCap) ==
  LET out == Leaving(pipe, post, postCap)
      order == Filter([lane \in DOMAIN pipe |-> lane], out)
  IN [pipe |-> [lane \in DOMAIN pipe |-> Shifted(pipe[lane], lane \in out)],
      post |-> post \o [k \in DOMAIN order |-> Last(pipe[order[k]])]]
=============================================================================
