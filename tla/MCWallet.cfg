SPECIFICATION Spec
CONSTANTS
    coin = coin
    gem = gem
    ticket = ticket
    pass = pass
    dust = dust
    box = box
    crate = crate
    chest = chest
    card = card
    shard = shard
    soul = soul
    cube = cube
    vial = vial
    tome = tome
    ann = ann
    bea = bea
    cat = cat
    dot = dot
    s1 = s1
    g1 = g1
    pack = pack
    month = month
    q1 = q1
    q2 = q2
    e1 = e1
    e2 = e2
    r1 = r1
    Conn = {c1, c2}
    Material = {coin, gem, ticket, pass, dust, box, crate, chest, card, shard, soul, cube, vial, tome}
    Hero = {ann, bea, cat, dot}
    Kind <- Kinds
    Opening <- Purse
    OpeningHeroes = {ann, bea}
    OpeningDuplicates <- DuplicatesBefore
    DupeReward <- Dupe
    LateDupeReward <- LateDupe
    OtherUids = {2}
    MaxRequests = 2
    MaxFaults = 1
    Goods = {g1}
    Cost <- CostOf
    Product <- ProductOf
    BuyLimit <- Limit
    Quantity <- Numbers
    Pack = {pack, month}
    PackItems <- PackOf
    PackPrice <- PriceOf
    CardDays <- DaysOf
    OpeningGrowth <- Columns
    LevelCost <- Levels
    RankNeeds <- LevelOfRank
    RankCost <- Ranks
    TalentNeeds <- RankOfTalent
    TalentCost <- Talents
    Style = {s1}
    StyleCost <- Styles
    SkillItem <- Portrait
    Consume <- Numbers
    InsightSkin = {bea}
    Consumable = {box, crate, chest, card}
    Effect <- Effects
    Baskets <- Uses
    InsightRow = {r1}
    InsightRank <- RankOfRow
    InsightLevel <- LevelOfRow
    ExpiredRow = {e1, e2}
    StaminaOf <- Vigour
    Attachment <- Letter
    Pool = {q1, q2}
    Options <- Prices
    Ticket = ticket
    Gem = gem
    TicketPrice = 1
    Featured <- UpOf
    Selectable = {q2}
    SixStar <- Six
    FiveStar <- Five
    Lower <- Low
    Many = 2
    Few = {5}
    HardPity = 3
    SharedCount <- CountFor
    Discounts <- Discounted
    Template = {1, 2}
    FirstTemplate = 1
    NoStyle = NoStyle
    Nowhere = Nowhere
    OpeningCubes <- FirstScheme
    Scheme <- Schemes
    Moves <- CubeMoves
    Sculpted = {ann, dot}
    Snapshot = {1, 2}
    Sub = {1, 5}
    Common = {1}
    FightGroup <- FightGroups
    EquipChange <- Swaps
    Saved <- SavedTeams
    EmptyTeam <- Nobody
    Gifts <- Typed
    LevelArgs <- LevelsTyped
    Mixes <- Together
INVARIANTS
    DebtBounded
    LimitKept
    AllOrNothing
    PayBeforeDelivery
    MailDeliveredOnce
    RecordsAgree
    ItemsUsedOnce
    PityHolds
    GrowthPaidFor
    TalentsInStep
    TeamsKeptWhole
CHECK_DEADLOCK FALSE
SYMMETRY ConnSymmetry
