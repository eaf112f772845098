------------------------------ MODULE MC_ASR ------------------------------
(***************************************************************************)
(* Small instances of ASR for TLC.  Doubles count tenths (Unit = 10); the  *)
(* configurations keep the default's weights and MAX_STEP and shrink the   *)
(* budget range and the reference rates so that the pressures saturate    *)
(* with one or two increments per tick.                                    *)
(***************************************************************************)
EXTENDS ASR

\* A configuration with the default's weights (0.3, 0.6, 0.1), MAX_STEP 0.2,
\* reference rates of 0.2/s, miss rate 0.1 and budget range [b, B].
Cfg(b, B, hyst, on) ==
    [QSTAR |-> 2, RSTAR |-> 1, WSTAR |-> 2, BMIN |-> b, BMAX |-> B,
     WQ |-> 3, WM |-> 6, WW |-> 1, HYST |-> hyst, MAX_STEP |-> 2,
     enable |-> on]

MC_Default == Cfg(1, 11, 2, FALSE)

\* Passing runs: the swaps keep the budget range of the defaults.
MC_Configs == {Cfg(1, 11, 2, TRUE), MC_Default}

\* The lifecycle run: the one enabled configuration.
MC_ConfigsOn == {Cfg(1, 11, 2, TRUE)}

\* A swap to a configuration with a narrower budget range.
MC_ConfigsNarrow == {Cfg(1, 11, 2, TRUE), Cfg(4, 8, 5, TRUE)}

\* Swaps that narrow the range: with HYST 5 the hold can keep a budget
\* below BMIN; with HYST 3 a budget exactly HYST below BMIN must move.
MC_ConfigsNear == {Cfg(1, 11, 2, TRUE), Cfg(4, 8, 5, TRUE), Cfg(4, 8, 3, TRUE)}

\* A configuration with b_max <= b_min, which spec 7 says must be rejected.
MC_ConfigsMalformed == {Cfg(8, 4, 2, TRUE)}

=============================================================================
