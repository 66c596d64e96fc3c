--------------------------- MODULE HardhatConfig ---------------------------
(***************************************************************************)
(* The decisions hardhat.config.ts takes when a process loads it, from its *)
(* environment: which chain is forked, which tests mocha selects, which    *)
(* networks exist and what gas they are configured with.  Several of them  *)
(* repeat the same question about FORK and FORK_NETWORK independently.     *)
(***************************************************************************)
EXTENDS Integers, FiniteSets

\* The environment: process.env, after dotenv has added what .env holds.
Environments ==
    [FORK : BOOLEAN, FORK_NETWORK : {"", "arbitrum"},
     ALCHEMY_TOKEN : {"", "fake_alchemy_token", "token"}, ARBITRUM_RPC_URL : BOOLEAN,
     KOVAN_DEPLOY_PRIVATE_KEY : BOOLEAN]

\* Faulty: always the first of the two.
alwaysEthereum(env) == "ethereum"

forkingConfig(env) == IF env.FORK_NETWORK = "arbitrum" THEN "arbitrum" ELSE "ethereum"

\* mocha's grep over the titles of the tests; a title carries at most one tag.
Tags == {"", "@forked-mainnet", "@forked-arbitrum"}
mainnetForkMochaConfig == [grep |-> {"@forked-mainnet"}, invert |-> FALSE]
arbitrumForkMochaConfig == [grep |-> {"@forked-arbitrum"}, invert |-> FALSE]
\* The pattern "@forked" is found in both tags.
unittestMochaConfig == [grep |-> {"@forked-mainnet", "@forked-arbitrum"}, invert |-> TRUE]

mochaConfig(env) ==
    IF env.FORK
    THEN IF env.FORK_NETWORK = "arbitrum" THEN arbitrumForkMochaConfig ELSE mainnetForkMochaConfig
    ELSE unittestMochaConfig

\* Tags whose tests mocha runs (external).
Selected(config) == IF config.invert THEN Tags \ config.grep ELSE config.grep

\* The live networks are spread into the configuration when a deploy key is set.
hardhatNetworks == {"kovan", "staging_mainnet", "production"}
networks(env) ==
    {"hardhat", "localhost", "coverage"}
        \cup (IF env.KOVAN_DEPLOY_PRIVATE_KEY THEN hardhatNetworks ELSE {})

\* The chain behind the in-process network, which is also the one `hardhat node` serves.
forking(env) == IF env.FORK THEN forkingConfig(env) ELSE "none"

\* A fork without a url answers no request (external).  Only Arbitrum's can be missing:
\* Ethereum's is put together from the token.
hasUrl(env) == forking(env) = "arbitrum" => env.ARBITRUM_RPC_URL

\* Networks with a `gas` entry; hardhat's default for the others is "auto".
NetworksWithGas == {"hardhat", "localhost"}

\* The process exits while it loads its configuration.
checkForkedProviderEnvironment(env) ==
    ~(env.FORK /\ env.ALCHEMY_TOKEN \in {"", "fake_alchemy_token"})
=============================================================================
