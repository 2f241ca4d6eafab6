------------------------------ MODULE MCParcial ------------------------------
(* One channel, two ranges, two limits: 0 is below and 2 above the threshold. *)
EXTENDS Parcial

MCChannels == <<"R">>
MCRanges == {<<0, 1>>, <<1, 2>>}
MCFirstRange == <<1, 2>>
MCLimits == {<<3, 5>>}
MCFirstLimits == <<0, 8>>
=============================================================================
