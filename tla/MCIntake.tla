------------------------------ MODULE MCIntake ------------------------------
(***************************************************************************)
(* Intake on small instances.  The streams have frames back to back, a     *)
(* frame in the payload of a damaged one, start octets that begin nothing, *)
(* and headers that are damaged or declare too little.                     *)
(***************************************************************************)
EXTENDS Intake

Spelled == Encode(<<5, 6, 100, 1>>)

Damaged == [Spelled EXCEPT ![Len(Spelled)] = 9]

(* Three connections; the first one's streams are long, and one is longer  *)
(* than the parser's buffer.                                               *)
MCStreams ==
    << { <<7, 5>> \o Damaged \o Encode(<<>>),
         Encode(<<2>>) \o <<5, 6, Undersized, 5, 6, 7>> \o Encode(<<>>),
         Spelled \o Encode(<<1, 2, 3, 4>>) \o <<5>> \o Encode(<<>>) },
       { Encode(<<>>) },
       { <<5>> } >>

MCDatagrams == <<Encode(<<1, 2>>) \o Encode(<<3, 4>>), Encode(<<4>>)>>
=============================================================================
