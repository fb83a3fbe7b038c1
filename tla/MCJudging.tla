----------------------------- MODULE MCJudging -----------------------------
(***************************************************************************)
(* One call of Judging, for a program that is run or submitted on a plan   *)
(* whose hidden case has the higher ordinal and the lower identifier.      *)
(***************************************************************************)
EXTENDS Judging

OwnAttempt == [c \in Call |-> c]

Case(id, ordinal, visibility, text) ==
    [id |-> id, ordinal |-> ordinal, visibility |-> visibility, expectedOutput |-> text]

Plan == {Case(1, 2, "HIDDEN", <<"a", "lf">>), Case(2, 1, "PUBLIC", <<"a">>)}

Simple == [mode |-> "RUN", language |-> "python", plan |-> Plan]

Executions ==
    {Simple, [Simple EXCEPT !.mode = "SUBMIT"],
     [Simple EXCEPT !.mode = "SUBMIT", !.language = "java"]}

Output(stdout, stderr, exitCode) ==
    [stdout |-> stdout, stderr |-> stderr, exitCode |-> exitCode]

Programs ==
    {Output(<<"a", "cr", "lf">>, <<>>, 0), Output(<<"a">>, <<"nul">>, 0),
     Output(<<"bad", "bad">>, <<"bad">>, 0), Output(<<>>, <<>>, 1)}
=============================================================================
