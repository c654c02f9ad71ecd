----------------------------- MODULE MCWifiSetup -----------------------------
(***************************************************************************)
(* WifiSetup for TLC: one text an app may write, in one or two chunks, and *)
(* compiled-in credentials that the access point accepts or not.           *)
(***************************************************************************)
EXTENDS WifiSetup

MCDefault == [ssid |-> <<"factory">>, password |-> <<"factory">>]
MCTyped   == [ssid |-> <<"a">>, password |-> <<"a">>]
MCBoth    == {MCDefault, MCTyped}
MCNew     == {MCTyped}
=============================================================================
