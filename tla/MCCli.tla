------------------------------- MODULE MCCli -------------------------------
(***************************************************************************)
(* Cli as TLC checks it: every duration text of up to five of the digits   *)
(* 0, 6 and 9, every pair of flags with every composition, and every       *)
(* fixture of up to three snapshots over three times.                      *)
(***************************************************************************)
EXTENDS Cli, SequencesExt

MCTexts == [digits : BoundedSeq({0, 6, 9}, 5), unit : {"", "s", "m", "h", "other"}]

Thirty == [digits |-> <<3, 0>>, unit |-> "s"]

\* Every command line of a command, with each combination of its flags.
Flagged(asks, durations, sources) ==
  [ask : asks, command : {TRUE}, durations : durations, source : sources,
   any : BOOLEAN, explain : BOOLEAN, reject_expensive : BOOLEAN, reject_low_data : BOOLEAN]

\* The same with --reject-expensive alone.
Plain(asks, durations, sources) ==
  {[i EXCEPT !.any = FALSE, !.explain = FALSE, !.reject_expensive = TRUE, !.reject_low_data = FALSE] :
     i \in Flagged(asks, durations, sources)}

\* Two networks are enough for the lookup: they differ in both flags.
Timed == [at : 0..2, state : {[f \in Flags |-> b] : b \in BOOLEAN}]

MCFixtures ==
  {Static(net) : net \in Networks} \cup {Sequence(list) : list \in BoundedSeq(Timed, 3)} \cup {Unloadable}

BecomesExpensive == Sequence(<<[at |-> 1, state |-> [f \in Flags |-> f = "expensive"]]>>)

MCInvocations ==
  Flagged({"check"}, {<<Thirty>>}, {NoSource, NoPrefix, BecomesExpensive})
    \cup Plain({"check"}, {<<Thirty>>}, MCFixtures)
    \cup Plain({"run", "check"}, {<<Thirty, text>> : text \in MCTexts}, {NoSource})
    \cup Plain({"help", "version", "bare", "wrong"}, {<<>>}, {NoSource})
    \cup {[i EXCEPT !.command = FALSE] : i \in Plain({"run"}, {<<Thirty>>}, {NoSource})}

CliPredicateLists == {<<>>, <<"expensive">>, <<"low_data">>, <<"expensive", "low_data">>}
=============================================================================
