-------------------------- MODULE MCProviderChain --------------------------
(* A small instance of ProviderChain for TLC: one provider and the stub.     *)
EXTENDS ProviderChain

TwoProviders == <<"ollama", "stub">>

LimitOf == [ollama |-> 2, stub |-> 1]
Limits == [p \in Providers |-> LimitOf[p]]

=============================================================================
