-------------------------- MODULE MCGatewayRecovery --------------------------
(***************************************************************************)
(* Up to six requests to one session with two documents, served by two Gateway  *)
(* processes.                                                               *)
(***************************************************************************)
EXTENDS GatewayRecovery

CONSTANTS a1, a2, a3, a4, a5, a6, d1, d2

MCAttempt == {a1, a2, a3, a4, a5, a6}
MCDocuments == {d1, d2}

R(kind, scopes, of) == [kind |-> kind, entries |-> scopes, of |-> of]

Requests(q1, q2, q3, q4, q5, q6) ==
    [a \in MCAttempt |-> CASE a = a1 -> q1 [] a = a2 -> q2 [] a = a3 -> q3
                           [] a = a4 -> q4 [] a = a5 -> q5 [] a = a6 -> q6]

\* A mutation that may leave a hold on one or two documents; a verification read; the
\* mutation that carries the plan, with an earlier confirmation; and a competing mutation
\* of the whole session with a second verification, or a redelivery of the origin (the
\* fourth is then a preview that is already done).
Recovering ==
    LET After(o, q4, q5) ==
            Requests(R("auto", o, None), R("verify", <<>>, a1), R("next", <<d1>>, a6),
                     q4, q5, R("previewed", <<d1>>, None))
    IN  {After(<<d1>>, R("auto", <<Session>>, None), R("verify", <<>>, a1)),
         After(<<d1, d2>>, R("previewed", <<d2>>, None), R("redeliver", <<d1, d2>>, a1))}

\* A preview, two commits that present its token, one of them perhaps with other
\* arguments, an unconfirmed mutation and a verification of its outcome.
Confirming ==
    {Requests(R("preview", <<d1>>, None), R("commit", <<d1>>, a1), R("commit", <<d>>, a1),
              R("auto", <<d1>>, None), R("verify", <<>>, a4), R("previewed", <<d2>>, None))
        : d \in MCDocuments}

MCWorkload == Recovering \cup Confirming
=============================================================================
