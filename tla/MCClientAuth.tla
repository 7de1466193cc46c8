---------------------------- MODULE MCClientAuth ----------------------------
(* Small instances of SeedLedger and ClientAuth for TLC. *)
EXTENDS SeedInvariant, TLC

TwoCurrencies == <<"USDT", "BTC">>
StartingTwo == [k \in {"USDT", "BTC"} |-> IF k = "USDT" THEN 3 ELSE 1]
UpAndDown == {-1, 1}

RunSymmetry == Permutations(Runs) \cup Permutations(Keys)
=============================================================================
