--------------------------- MODULE MC_ReplayWorker ---------------------------
(***************************************************************************)
(* Small instances of the composition for TLC, with the configurations of  *)
(* MC_ASR: budgets between 1 and 11 that a lightly loaded tick moves by 2. *)
(***************************************************************************)
EXTENDS ReplayWorker

\* As MC_ASR's Cfg: weights (0.3, 0.6, 0.1), MAX_STEP 0.2, reference rates
\* 0.2/s, 0.1 and 0.2/s, budget range [b, B].
RCfg(b, bMax, hyst, on) ==
    [QSTAR |-> 2, RSTAR |-> 1, WSTAR |-> 2, BMIN |-> b, BMAX |-> bMax,
     WQ |-> 3, WM |-> 6, WW |-> 1, HYST |-> hyst, MAX_STEP |-> 2,
     enable |-> on]

MC_RDefault == RCfg(1, 11, 2, FALSE)

\* The configuration path turns ASR on.
MC_RConfigs == {RCfg(1, 11, 2, TRUE)}

=============================================================================
