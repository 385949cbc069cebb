------------------------------ MODULE MCIngest ------------------------------
(* Instances of Ingest for TLC. *)
EXTENDS Ingest, TLC

CONSTANTS t1, t2, t3

\* Every length up to two, every kind in either place, and a bad element before and
\* after a good one.
SmallPayloads ==
    {<<>>, <<"noShow">>, <<"timed", "noShow">>, <<"timed", "timed">>, <<"timed", "bad">>,
     <<"bad", "timed">>}

\* An Amplify row, and the beginnings of the DB button's and of scmatch's rows.
SmallBatches ==
    {<<"matchtransaction">>, <<"matchtransaction", "matchtransaction">>, <<"scmatch", "scmatch">>}

MCTeams == {t1, t2, t3}

\* Two pages; t3 is a team that is no longer published.
MCPublished == 0 :> <<t1>> @@ 1 :> <<t2, t1>>
=============================================================================
