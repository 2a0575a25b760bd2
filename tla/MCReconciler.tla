---------------------------- MODULE MCReconciler ----------------------------
(***************************************************************************)
(* A small instance of Reconciler: a namespace manifest, an application    *)
(* manifest that needs the namespace and carries an internal kots object,  *)
(* an invalid manifest, two undecodable ones, and a manifest the server    *)
(* lists as missing.                                                       *)
(***************************************************************************)
EXTENDS Reconciler

CONSTANTS mNs, mApp, mInvalid, mGarbage, mBadYaml, mOld,
          oNs, oApp, oSvc, oOld, oKots

MCManifests == {mNs, mApp, mInvalid, mGarbage, mBadYaml, mOld}
MCObjects == {oNs, oApp, oSvc, oOld, oKots}
MCInternal == {oKots}

MCContent(m) ==
    CASE m = mNs      -> {oNs}
      [] m = mApp     -> {oApp, oKots}
      [] m = mInvalid -> {oSvc}
      [] m = mOld     -> {oOld}
      [] OTHER        -> {}

(* The application lives in the namespace created by mNs.                  *)
MCRequires(m) == IF m = mApp THEN {oNs} ELSE {}

(* The application listed before its namespace; the namespace with a       *)
(* garbage entry while an old manifest is missing; an invalid manifest and *)
(* an unparsable one beside the application.                               *)
MCDocuments ==
    { [present |-> <<mApp, mNs>>, missing |-> <<>>],
      [present |-> <<mGarbage, mNs>>, missing |-> <<mOld>>],
      [present |-> <<mInvalid, mBadYaml>>, missing |-> <<mApp>>] }
=============================================================================
