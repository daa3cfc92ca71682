------------------------------- MODULE MCCpu -------------------------------
(***************************************************************************)
(* Every instruction that is not a jump, run alone, and programs of a few  *)
(* instructions, from registers at the ends and boundaries of a byte.      *)
(***************************************************************************)
EXTENDS Cpu

Samples == {0, 1, 15, 128, 255}
Words == {0, 1, 255, 256, 33023, 65535}

Bytes1 == {<<r.instruction>> : r \in {r \in FactoryList : TotalWidth(r) = 1 /\ ~r.is_jump}}
Bytes2 == {<<r.instruction, v>> : r \in {r \in FactoryList : r.width = 1 /\ TotalWidth(r) = 2
                                                          /\ ~r.is_jump}, v \in Samples \cup {129}}
Bytes3 == {<<r.instruction, v, 192>> :
             r \in {r \in FactoryList : r.width = 1 /\ TotalWidth(r) = 3 /\ ~r.is_jump},
             v \in {0, 255}}
Prefixed == {<<203, b>> : b \in Byte} \cup {<<0, 16>>}

Sums == {LoadBoth(x, y) \o p : x \in Words, y \in Words, p \in {SumOfPairs, DifferenceOfPairs}}
Exchanges == {<<PushOf(p), PushOf(q), PopOf(r), PopOf(s)>> :
                p \in 0 .. 3, q \in 0 .. 3, r \in 0 .. 3, s \in 0 .. 3}

MCPrograms == Bytes1 \cup Bytes2 \cup Bytes3 \cup Prefixed \cup Sums \cup Exchanges

MCRegisters ==
  {[A |-> a, B |-> b, C |-> 128, D |-> b, E |-> 255 - b, H |-> 192, L |-> 0] :
     a \in Samples \cup {99}, b \in Samples}
MCFlags == {[Z |-> c, N |-> 1 - c, H |-> c, C |-> c] : c \in 0 .. 1}
MCRam == {0, 49149, 49150, 49151, 49152, 65408, 65532, 65533, 65534, 65535}
MCMemories == {[a \in MCRam |-> v] : v \in {15, 255}}
============================================================================
