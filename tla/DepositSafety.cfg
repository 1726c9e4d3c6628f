SPECIFICATION FairSpec
CONSTANTS
    ann = ann
    ben = ben
    checkout = checkout
    transfer = transfer
    NoUser = NoUser
    NoJob = NoJob
    Users = {ann, ben}
    Deposits = {checkout, transfer}
    Checkouts = {checkout}
    Billstack = {}
    Named = {checkout}
    Owner <- AnnOwns
    Referrer <- BenRefersAnn
    Handlers = {s1, s2}
    Mortal = {s1, s2}
    Lockable = {ann, ben}
    Earners = {ann}
INVARIANTS
    TypeOK
    MoneyIsBacked
    TransferCreditedOnce
    CheckoutCreditedOnce
    RewardedOnce
SYMMETRY MCSymmetry
