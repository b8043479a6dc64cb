---------------------------- MODULE MC_VenueFeeds ----------------------------
EXTENDS VenueFeeds

\* Two expiries of one underlying; each gets a new instrument.
MCInstruments == {"i1", "i2", "i3"}
MCChains == {"near", "far"}
MCChainOf == [i \in MCInstruments |-> IF i = "i3" THEN "far" ELSE "near"]
MCBaseOf == [c \in MCChains |-> "BTC"]
MCFirstListed == {"i1"}
MCEager == {"near"}
MCSockets == 1..2
==============================================================================
