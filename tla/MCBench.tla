------------------------------- MODULE MCBench -------------------------------
(* An instance of Bench for TLC: benches of two units, with names that are    *)
(* made up, given, given twice, and too long for a field of three bytes.     *)
EXTENDS Bench

CONSTANTS h1, h2

MCHosts == {h1, h2}
Symmetry == Permutations(MCHosts)

Short == [text |-> "AB12_CD34", units |-> 9]
Long  == [text |-> "one of 127 units", units |-> 127]
MCFresh == {[text |-> "drawn", units |-> 9]}

Plain == [model |-> NotGiven, busid |-> NotGiven, vid |-> NotGiven, pid |-> NotGiven,
          serial |-> NotGiven, boot |-> NotGiven, bad |-> FALSE]
QA403 == [Plain EXCEPT !.model = "qa403", !.serial = Short]
Stuck == [Plain EXCEPT !.boot = TRUE, !.serial = Long]
WithName(spec, busid) == [spec EXCEPT !.busid = busid]

MCBenches ==
    { << >>,
      <<Plain, [Plain EXCEPT !.bad = TRUE]>>,
      <<Plain, Stuck>>,
      <<Plain, WithName(QA403, <<"1", "-", "1">>)>>,
      <<WithName(QA403, <<"x", "y">>), WithName(Plain, <<"x">>)>>,
      <<WithName(QA403, <<"1", "-", "2", "x">>), WithName(Stuck, <<"1", "-", "2">>)>> }
=============================================================================
