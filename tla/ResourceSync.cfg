SPECIFICATION FairSpec
CONSTANTS
    table = table
    chat = chat
    wiki = wiki
    Resources = {table, chat, wiki}
    Created <- MCCreated
    Profile <- MCProfile
    Failing = {table}
    Workers = {w1}
    Requests = {q1}
    LimitResources = 2
    AllowedTypes = {"bitable", "chat", "wiki"}
    AllowedStatuses = {"never_synced", "stale"}
    LargeDocumentMode = "index_only"
    BitableMode = "master_data_index"
    MaxInterruptions = 2
    Governed = {chat}
INVARIANTS
    SyncTypeOK
    RunRowTruthful
PROPERTIES
    CalledOnlyWhenReady
    DecisionLostOnlyIfOvertaken
    EveryResourceServed
