---------------------------- MODULE MCSoloClient ----------------------------
(* Two requests, one for a model whose files may go missing. *)
EXTENDS SoloClient, TLC

CONSTANTS q1, q2, m1, m2

Wants == q1 :> m1 @@ q2 :> m2

\* What a block or a template carries: nothing, one request, or both.
FewCarry == {<<>>, <<q1, q2>>}
=============================================================================
