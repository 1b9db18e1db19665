-------------------------- MODULE MCServicesProofs --------------------------
(***************************************************************************)
(* The parts that run together in MCServices: what is proved of each of    *)
(* them by itself holds of it there, and all keep their types.             *)
(***************************************************************************)
EXTENDS MCServices, ServiceProofs, DeliveryProofs, UptimeStatsProofs, TLAPS

-----------------------------------------------------------------------------
(* By the shape of Continuing each part behaves as its own specification   *)
(* says, so what is proved of it there holds in the run.                   *)
LEMMA ServicesAreTheirParts ==
    Services =>
      /\ Spec /\ CacheSpec /\ TreeSpec /\ ExpirySpec
      /\ FederationSpec /\ AlertSpec /\ AdminSpec /\ PageSpec
      /\ AddressSpec /\ BeatsSpec /\ CooldownSpec /\ ButtonsSpec
      /\ WindowSpec /\ HandoverSpec
<1>1. (Beginning => Init) /\ ([Continuing]_serviceVars => [Next]_vars)
    BY DEF Beginning, Continuing, serviceVars
<1>2. (Beginning => CacheInit) /\ ([Continuing]_serviceVars => [CacheNext]_cacheVars)
    BY DEF Beginning, Continuing, serviceVars
<1>3. (Beginning => TreeInit) /\ ([Continuing]_serviceVars => [TreeNext]_treeVars)
    BY DEF Beginning, Continuing, serviceVars
<1>4. (Beginning => ExpiryInit) /\ ([Continuing]_serviceVars => [ExpiryNext]_expiryVars)
    BY DEF Beginning, Continuing, serviceVars
<1>5. (Beginning => FederationInit) /\ ([Continuing]_serviceVars => [FederationNext]_federationVars)
    BY DEF Beginning, Continuing, serviceVars
<1>6. (Beginning => AlertInit) /\ ([Continuing]_serviceVars => [AlertNext]_alertVars)
    BY DEF Beginning, Continuing, serviceVars
<1>7. (Beginning => AdminInit) /\ ([Continuing]_serviceVars => [AdminNext]_adminVars)
    BY DEF Beginning, Continuing, serviceVars
<1>8. (Beginning => PageInit) /\ ([Continuing]_serviceVars => [PageNext]_pageVars)
    BY DEF Beginning, Continuing, serviceVars
<1>9. (Beginning => AddressInit) /\ ([Continuing]_serviceVars => [AddressNext]_addressVars)
    BY DEF Beginning, Continuing, serviceVars
<1>10. (Beginning => BeatsInit) /\ ([Continuing]_serviceVars => [BeatsNext]_beatsVars)
    BY DEF Beginning, Continuing, serviceVars
<1>11. (Beginning => CooldownInit) /\ ([Continuing]_serviceVars => [CooldownNext]_cooldownVars)
    BY DEF Beginning, Continuing, serviceVars
<1>12. (Beginning => ButtonsInit) /\ ([Continuing]_serviceVars => [ButtonsNext]_buttonVars)
    BY DEF Beginning, Continuing, serviceVars
<1>13. (Beginning => WindowInit) /\ ([Continuing]_serviceVars => [WindowNext]_windowVars)
    BY DEF Beginning, Continuing, serviceVars
<1>14. (Beginning => HandoverInit) /\ ([Continuing]_serviceVars => [HandoverNext]_handoverVars)
    BY DEF Beginning, Continuing, serviceVars
<1> QED
    BY <1>1, <1>2, <1>3, <1>4, <1>5, <1>6, <1>7, <1>8, <1>9, <1>10, <1>11, <1>12, <1>13, <1>14, PTL
    DEF Services, Spec, CacheSpec, TreeSpec, ExpirySpec, FederationSpec, AlertSpec, AdminSpec,
        PageSpec, AddressSpec, BeatsSpec, CooldownSpec, ButtonsSpec, WindowSpec, HandoverSpec

(* Every variable of the part that runs keeps its type (TypesOK).          *)
THEOREM AllTypes == Services => []TypesOK
<1>1. Beginning => part \in Parts BY DEF Beginning
<1>2. part \in Parts /\ [Continuing]_serviceVars => (part \in Parts)'
    BY DEF Continuing, serviceVars
<1>3. ASSUME part \in Parts, TypeOK, CacheTypeOK, TreeTypeOK, ExpiryTypeOK, FederationTypeOK,
             AlertTypeOK, AdminTypeOK, PageTypeOK, AddressTypeOK, BeatsTypeOK, CooldownTypeOK,
             ButtonsTypeOK, WindowTypeOK, HandoverTypeOK
      PROVE  TypesOK
    BY <1>3 DEF TypesOK, Parts
<1> QED
    BY ServicesAreTheirParts, <1>1, <1>2, <1>3, StatsTypes, CacheTypes, TreeTypes, ExpiryTypes,
       FederationTypes, AlertTypes, AdminTypes, PageTypes, AddressTypes, BeatsTypes,
       CooldownTypes, ButtonsTypes, WindowTypes, HandoverTypes, PTL
    DEF Services
=============================================================================
