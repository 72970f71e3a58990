--------------------------- MODULE Services_proofs ---------------------------
(***************************************************************************)
(* The components that are checked side by side: whatever values their     *)
(* constants have, a behaviour of the composition is one of each of them,  *)
(* so that what is proved of a component alone holds beside the others.    *)
(***************************************************************************)
EXTENDS MCServices, RecurrenceClock_proofs, Stores_proofs

\* A step is one of the component in focus, and no step of the others.
LEMMA StepOfEach ==
    ASSUME [ServicesNext]_allVars
    PROVE  /\ [Next]_vars /\ [LedgerNext]_ledgerVars /\ [ReadyNext]_readyVars
           /\ [TelemetryNext]_telemetryVars /\ [EventNext]_eventVars /\ [VaultNext]_vaultVars
           /\ [BusNext]_busVars /\ [ContractNext]_contractVars
BY DEF ServicesNext, ClockStep, LedgerStep, ReadyStep, TelemetryStep, EventStep, VaultStep,
       BusStep, ContractStep, allVars

\* Side by side, each component behaves as it does alone.
THEOREM SideBySide ==
    ServicesSpec =>
        /\ Spec /\ LedgerSpec /\ ReadySpec /\ TelemetrySpec
        /\ EventSpec /\ VaultSpec /\ BusSpec /\ ContractSpec
<1>1. ServicesInit => /\ Init /\ LedgerInit /\ ReadyInit /\ TelemetryInit
                      /\ EventInit /\ VaultInit /\ BusInit /\ ContractInit
  BY DEF ServicesInit
<1>2. [ServicesNext]_allVars =>
          /\ [Next]_vars /\ [LedgerNext]_ledgerVars /\ [ReadyNext]_readyVars
          /\ [TelemetryNext]_telemetryVars /\ [EventNext]_eventVars /\ [VaultNext]_vaultVars
          /\ [BusNext]_busVars /\ [ContractNext]_contractVars
  BY StepOfEach
<1> QED
  BY <1>1, <1>2, PTL DEF ServicesSpec, Spec, LedgerSpec, ReadySpec, TelemetrySpec, EventSpec,
     VaultSpec, BusSpec, ContractSpec

\* Every component keeps to the values its code stores: no undefined link, no
\* time in the future, no negative in-degree, no dead letter without a number.
THEOREM ServicesTypeCorrect == ServicesSpec => []ServicesTypeOK
<1>1. TelemetryInv => TelemetryTypeOK
  BY DEF TelemetryInv
<1>2. VaultInv => VaultTypeOK
  BY DEF VaultInv
<1>3. BusInv => BusTypeOK
  BY DEF BusInv
<1>4. (/\ TypeOK /\ LedgerTypeOK /\ ReadyTypeOK
       /\ TelemetryTypeOK /\ VaultTypeOK /\ BusTypeOK /\ ContractTypeOK) => ServicesTypeOK
  BY DEF ServicesTypeOK
<1> QED
  BY <1>1, <1>2, <1>3, <1>4, SideBySide, ClockTypeCorrect, LedgerTypeCorrect, ReadyTypeCorrect,
     TelemetryInvariant, VaultInvariant, BusInvariant, ContractTypeCorrect, PTL
=============================================================================
