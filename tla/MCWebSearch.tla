---------------------------- MODULE MCWebSearch ----------------------------
(* The four tiers over two sources, and no page on the table, as deployed.*)
EXTENDS WebSearch

AllTiers == <<"searxng", "keyless", "user_links", "stub">>
NoPages == <<>>

=============================================================================
