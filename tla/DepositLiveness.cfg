SPECIFICATION FairSpec
CONSTANTS
    ann = ann
    ben = ben
    checkout = checkout
    transfer = transfer
    NoUser = NoUser
    NoJob = NoJob
    Users = {ann, ben}
    Deposits = {checkout, transfer}
    Checkouts = {checkout}
    Billstack = {transfer}
    Named = {}
    Owner <- AnnOwns
    Referrer <- BenRefersAnn
    Handlers = {s1, s2}
    Mortal = {s1}
    Lockable = {ann}
    Earners = {}
PROPERTIES
    PaidIsCredited
    FirstDepositIsRewarded
