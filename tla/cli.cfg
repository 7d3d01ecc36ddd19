SPECIFICATION CliFairSpec
CONSTANTS
    api = api
    bitcoind = bitcoind
    alice = alice
    Image = {api, bitcoind}
    Upstream = {bitcoind}
    OnHost = {bitcoind}
    OnPath = {}
    Wallet = {alice}
    MaxFaults = 2
    None = None
INVARIANTS TypeOK BootstrapDelivers BootstrapRecovers UpAuthenticated UpTruthful
PROPERTIES IdentityKept CommandEnds
