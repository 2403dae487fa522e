------------------------- MODULE MCListenerManager -------------------------
(* One address that moves between Go TLS, plain HTTP and the TLS frontend, *)
(* and one plain address that comes and goes.                              *)
EXTENDS ListenerManager, TLC

CONSTANTS pub, alt, sockPub, sockAlt, l1, l2, l3

MCTcp == {pub, alt}
MCInternal == pub :> sockPub @@ alt :> sockAlt
MCListeners == {l1, l2, l3}

Conf(p, i, a) == pub :> p @@ sockPub :> i @@ alt :> a @@ sockAlt :> "off"
MCConfigs == {Conf("tls", "off", "plain"), Conf("plain", "off", "off"),
              Conf("off", "plain", "plain"), Conf("plain", "off", "plain")}
=============================================================================
