SPECIFICATION FairSpec
CONSTANTS
    fund = fund
    stop = stop
    alice = alice
    bob = bob
    carol = carol
    Proposals = {fund, stop}
    Outcomes <- MCOutcomes
    Recipients = {alice, bob, carol}
    Schedule <- MCSchedule
    Retro <- MCRetro
    Add <- MCAdd
    Remove <- MCRemove
    MaxEpoch = 4
    MaxRare = 2
INVARIANTS
    ResultSound
    FinalVotes
    FundingSound
    PaidWhenExecuted
PROPERTIES
    ResultsAdvance
    EventuallyExecuted
