---------------------------- MODULE MCSystemDNS ----------------------------
EXTENDS SystemDNS

CONSTANTS s1, s2, home, away, public

MCServices == {s1, s2}
\* At home the router and the public resolver answer, away only the hotel's
\* router does, and offline nothing answers.
MCNetworks ==
  {[dhcp |-> <<home>>, detected |-> <<home>>, reach |-> {home, public}],
   [dhcp |-> <<away>>, detected |-> <<away>>, reach |-> {away}],
   [dhcp |-> <<>>, detected |-> <<>>, reach |-> {}]}
MCManual == {<<>>, <<public>>}
MCPublicFallback == <<public>>
MCFallbacks == {<<home>>}
MCFlagDefault == <<>>
=============================================================================
