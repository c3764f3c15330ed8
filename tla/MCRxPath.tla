----------------------------- MODULE MCRxPath -----------------------------
(* RxPath for TLC: a radio and channel E, a companion, two rule lists.      *)
EXTENDS RxPath

CONSTANTS a, s, own, other

Rule(src, tgt) == [source |-> src, target |-> tgt, passes |-> {own, other}]

(* What radio a hears is repeated on both antennas and published, what     *)
(* channel E hears is bridged to a, and a rule leads from the repeater to  *)
(* itself.                                                                 *)
Mixed == <<Rule(a, "repeater"), Rule(a, "mqtt"), Rule("channel_e", a),
           Rule("repeater", "repeater"), Rule("repeater", a),
           Rule("repeater", "channel_e")>>

RuleLists == {Mixed, <<>>}

(* Both, and all of them together, know one way to each antenna.           *)
ASSUME RulesOneWay == OneWay

(* Only repeating, as installed.                                           *)
Plain == {<<Rule(a, "repeater"), Rule("repeater", a)>>}
=============================================================================
