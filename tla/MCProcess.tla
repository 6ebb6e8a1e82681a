------------------------------- MODULE MCProcess ------------------------------
(* Bounds for model checking Process. *)
EXTENDS Process

\* A program that writes its stack and its second page, or nothing.
CodeAndStack == {<<"code", 1>>, <<"stack", 0>>}
NoPage == {}
===============================================================================
