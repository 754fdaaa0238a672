-------------------------- MODULE MCE1apTranslation --------------------------
(***************************************************************************)
(* Small instances of E1apTranslation: two PDU sessions, one DRB and one  *)
(* QoS flow id, two UP TNLs, one cause.  Every list holds at most one     *)
(* item; the setup response combines a setup item with a failed item      *)
(* (partial success), the modification response a setup-mod item of      *)
(* session s1 with a modified item of session s2 and the failed lists.    *)
(***************************************************************************)
EXTENDS E1apTranslation

CONSTANTS s1, s2, d1, f1, t1, t2, c1

UpToOne(S) == {<<>>} \cup {<<x>> : x \in S}

MCDrbs == [id : {d1}, ul : {<<[tnl |-> t, cg |-> 0]>> : t \in {t1, t2}}, flows : {<<f1>>},
           flowsFailed : UpToOne([flow : {f1}, cause : {c1}]), opts : {{}, DrbOpts}]
MCDrbMods == [id : {d1}, ul : {<<[tnl |-> t, cg |-> 0]>> : t \in {t1, t2}}, flows : {<<f1>>},
              flowsFailed : {<<>>}, opts : {{}, DrbModOpts}]
MCFailedDrbs == UpToOne([id : {d1}, cause : {c1}])

MCSetupSessions(id, tnls, opts) ==
    [id : {id}, ngDl : tnls, drbs : {<<d>> : d \in MCDrbs},
     drbFailed : MCFailedDrbs, opts : {{}, opts}]
MCModifiedSessions ==
    [id : {s2}, ngDl : {t1}, drbs : UpToOne(MCDrbs), drbFailed : {<<>>},
     drbModified : UpToOne(MCDrbMods), drbFailedToModify : MCFailedDrbs,
     opts : {{}, ModSessOpts}]

MCFailures == [success : {FALSE}, cause : {c1}]

MCSetupInputs ==
    [success : {TRUE}, setup : UpToOne(MCSetupSessions(s1, {t1, t2}, SessOpts)), failedPresent : BOOLEAN,
     failed : UpToOne([id : {s2}, cause : {c1}])]
    \cup MCFailures

MCModInputs ==
    [success : {TRUE}, sysPresent : {FALSE}]
    \cup [success : {TRUE}, sysPresent : {TRUE},
          setupMod : UpToOne(MCSetupSessions(s1, {t1}, ModSessOpts)),
          failedMod : UpToOne([id : {s2}, cause : {c1}]),
          modified : UpToOne(MCModifiedSessions),
          failedToModify : UpToOne([id : {s1}, cause : {c1}])]
    \cup MCFailures

=============================================================================
