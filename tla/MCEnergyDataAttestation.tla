---------------------- MODULE MCEnergyDataAttestation ----------------------
(***************************************************************************)
(* The instance of EnergyDataAttestation that TLC checks.                  *)
(***************************************************************************)
EXTENDS EnergyDataAttestation, TLC

CONSTANTS s1, s2, h1, h2, h3, h4, zero, t1, t2

MCSender == {s1, s2}
MCDataHash == {h1, h2, h3, h4, zero}
MCDataType == {t1, t2}

Interchangeable ==
    Permutations(MCSender) \cup Permutations({h1, h2, h3, h4})
        \cup Permutations(MCDataType)
===========================================================================
