------------------------------- MODULE Starter -------------------------------
(***************************************************************************)
(* Starter data (db/starter_data.rs): the rows that load_all_starter_data  *)
(* inserts for a new player, loader by loader, as the tables and the keys  *)
(* the inserts name; what the rows hold is left out.                       *)
(*                                                                         *)
(* A row is <<table, whose, which>>.  Most tables are keyed by the player  *)
(* and something that comes from the configuration, so that all the rows   *)
(* an insert writes for a player stand or fall together.  Tables numbered  *)
(* by a constant of the code have the same keys for everyone.  Each loader *)
(* gives                                                                   *)
(*   new    the rows it inserts plainly: one that is there is an error,    *)
(*   any    those it inserts OR IGNORE, ON CONFLICT DO UPDATE, or under a  *)
(*          number no other row has,                                       *)
(*   needs  those it reads, or updates, and that must be there by then for *)
(*          what it writes to be whole.                                    *)
(***************************************************************************)
EXTENDS Integers, Sequences

Everyone == 0
Own(player, tables) == tables \X {player} \X {"all"}
OwnPart(player, tables, which) == tables \X {player} \X {which}
Common(tables, which) == tables \X {Everyone} \X {which}
Writes(new, any) == [new |-> new, any |-> any, needs |-> {}]

-----------------------------------------------------------------------------
\* Critters are 10000000, 10000001, ... in every account.
load_critter_info(u) ==
    Writes(Common({"critters", "critter_rest_info"}, "all"),
           Own(u, {"critter_skills", "critter_tag_attributes"}))

load_player_info(u) == Writes(Own(u, {"player_info", "player_show_heroes"}), {})

\* Psychubes, heroes and expiring items take the next number of a counter of
\* the process.
load_equipment(u) == Writes({}, Own(u, {"equipment"}))

\* A hero wears a psychube of those just inserted, and the number of heroes of
\* each rarity goes into player_info.
load_hero_list(u) ==
    [new |-> Own(u, {"hero_birthday_info", "hero_touch_count"}),
     any |-> Own(u, {"heroes", "hero_passive_skill_levels", "hero_voices", "hero_skins",
                     "hero_all_skins", "hero_item_unlocks", "hero_sp_attrs",
                     "hero_destiny_stone_unlocks", "hero_talent_cubes",
                     "hero_talent_templates", "hero_talent_template_cubes"}),
     needs |-> Own(u, {"equipment", "player_info"})]

load_starter_items(u) ==
    Writes(OwnPart(u, {"items"}, "stackable") \cup OwnPart(u, {"items"}, "single"),
           Own(u, {"power_items", "insight_items"}))

load_starter_currencies(u) == Writes(Own(u, {"currencies"}), {})
load_starter_guides(u) == Writes(Own(u, {"guide_progress"}), {})
load_starter_user_stats(u) == Writes(Own(u, {"user_stats"}), {})

load_starter_hero_groups(u) ==
    Writes(Own(u, {"hero_groups_common", "hero_group_types"}),
           Own(u, {"hero_group_members", "hero_group_equips", "hero_group_activity104_equips"}))

load_hero_group_snapshots(u) ==
    Writes(Own(u, {"hero_group_snapshots"}),
           Own(u, {"hero_group_snapshot_groups", "hero_group_snapshot_members",
                   "hero_group_snapshot_equips", "hero_group_snapshot_activity104_equips",
                   "hero_group_snapshot_sort_ids"}))

load_dungeon_info(u) ==
    Writes(Own(u, {"user_dungeons", "dungeon_last_hero_groups", "user_dungeon_maps",
                   "user_dungeon_reward_points", "user_dungeon_claimed_rewards",
                   "user_dungeon_equip_sp_chapters", "user_chapter_type_nums",
                   "user_dungeon_finished_puzzles"})
             \cup OwnPart(u, {"user_dungeon_elements"}, "open")
             \cup OwnPart(u, {"user_dungeon_elements"}, "finished"), {})

\* Every episode of the configuration, over what load_dungeon_info left.
load_dungeon_infos(u) == Writes({}, Own(u, {"user_dungeons"}))

load_story_data(u) == Writes(Own(u, {"user_finished_stories", "user_processing_stories"}), {})
load_charge_info(u) == Writes(Own(u, {"user_charge_info", "user_sandbox_settings"}), {})
load_block_package_info(u) == Writes(Own(u, {"user_block_packages", "user_special_blocks"}), {})

\* Buildings are 20000000, 20000001, ... in every account.
load_building_info(u) == Writes(Common({"user_buildings"}, "all"), {})

load_character_interaction_info(u) ==
    Writes(Own(u, {"user_character_interactions", "user_character_interaction_selections",
                   "user_interaction_stats"}), {})

load_summon_info(u) ==
    Writes(Own(u, {"user_summon_stats", "user_summon_pools", "user_lucky_bags",
                   "user_single_bags", "user_sp_pool_info", "user_sp_pool_up_heroes",
                   "user_sp_pool_reward_progress"}), {})

load_summon_history(u) ==
    Writes({}, Own(u, {"user_summon_history", "user_summon_history_items"}))

load_achievement_info(u) == Writes(Own(u, {"user_achievements"}), {})
load_dialog_info(u) == Writes(Own(u, {"user_dialogs"}), {})
load_starter_antiques(u) == Writes(Own(u, {"user_antiques"}), {})

load_weekwalk_info(u) ==
    Writes(Own(u, {"user_weekwalk_info", "user_weekwalk_maps", "user_weekwalk_battle_heroes",
                   "user_weekwalk_element_history", "user_weekwalk_heroes",
                   "user_weekwalk_stories"}),
           Own(u, {"user_weekwalk_battles", "user_weekwalk_elements"}))

load_weekwalk_v2_info(u) ==
    Writes(Own(u, {"user_weekwalk_v2_info", "user_weekwalk_v2_layers",
                   "user_weekwalk_v2_battle_heroes", "user_weekwalk_v2_battle_skills",
                   "user_weekwalk_v2_cups", "user_weekwalk_v2_prev_settle",
                   "user_weekwalk_v2_prev_settle_layers", "user_weekwalk_v2_snapshots",
                   "user_weekwalk_v2_snapshot_skills"}),
           Own(u, {"user_weekwalk_v2_battles", "user_weekwalk_v2_elements"}))

load_explore_simple_info(u) ==
    Writes(Own(u, {"user_explore_info", "user_explore_chapters",
                   "user_explore_chapter_archives", "user_explore_bonus_scenes",
                   "user_explore_bonus_scene_options", "user_explore_map_bonuses"}),
           Own(u, {"user_explore_maps", "user_explore_unlocked_maps"}))

\* The psychubes of an episode's heroes are those the heroes wear.
load_tower_info(u) ==
    [new |-> Own(u, {"user_tower_info", "user_tower_opens", "user_towers",
                     "user_tower_open_sp_layers", "user_tower_pass_teaches",
                     "user_tower_layers", "user_tower_episodes",
                     "user_tower_episode_hero_equips", "user_assist_bosses",
                     "user_assist_boss_talent_plans", "user_assist_boss_plan_talents"}),
     any |-> Own(u, {"user_tower_episode_heroes"}),
     needs |-> Own(u, {"heroes"})]

load_player_card_info(u) == Writes(Own(u, {"user_player_card_info"}), {})

load_command_post_info(u) ==
    Writes(Own(u, {"user_command_post_info", "user_command_post_events",
                   "user_command_post_event_heroes", "user_command_post_tasks",
                   "user_command_post_catch_tasks", "user_command_post_gain_bonus"}), {})

load_friend_info(u) == Writes(Own(u, {"user_friends", "user_blacklist"}), {})
load_simple_properties(u) == Writes(Own(u, {"user_simple_properties"}), {})

load_activity101_from_json(u, activity) ==
    Writes(OwnPart(u, {"user_activity101_once_bonus"}, activity),
           OwnPart(u, {"user_activity101_claims"}, activity))
load_activity101_13108(u) == load_activity101_from_json(u, "13108")
load_activity101_12722(u) == load_activity101_from_json(u, "12722")

load_starter_bgm(u) == Writes(Own(u, {"user_bgm", "user_bgm_state"}), {})

\* Mutant of load_room_info: the block packages are inserted plainly.
load_room_info_plainly(u) ==
    [new |-> Common({"user_buildings"}, "placed") \cup Own(u, {"user_block_packages"}),
     any |-> Own(u, {"user_blocks", "user_roads", "user_room_state"}),
     needs |-> Common({"user_buildings", "critters"}, "all")]

\* The room's own buildings follow the player's last, that is, those of
\* load_building_info; without these they would start at the same number.
load_room_info(u) ==
    [new |-> Common({"user_buildings"}, "placed"),
     any |-> Own(u, {"user_blocks", "user_block_packages", "user_roads", "user_room_state"}),
     needs |-> Common({"user_buildings", "critters"}, "all")]

load_starter_mail(u) == Writes({}, Own(u, {"user_mails", "user_mail_history"}))

-----------------------------------------------------------------------------
Loaders(u) == <<
    load_critter_info(u), load_player_info(u), load_equipment(u), load_hero_list(u),
    load_starter_items(u), load_starter_currencies(u), load_starter_guides(u),
    load_starter_user_stats(u), load_starter_hero_groups(u), load_hero_group_snapshots(u),
    load_dungeon_info(u), load_dungeon_infos(u), load_story_data(u), load_charge_info(u),
    load_block_package_info(u), load_building_info(u), load_character_interaction_info(u),
    load_summon_info(u), load_summon_history(u), load_achievement_info(u), load_dialog_info(u),
    load_starter_antiques(u), load_weekwalk_info(u), load_weekwalk_v2_info(u),
    load_explore_simple_info(u), load_tower_info(u), load_player_card_info(u),
    load_command_post_info(u), load_friend_info(u), load_simple_properties(u),
    load_activity101_13108(u), load_activity101_12722(u), load_starter_bgm(u),
    load_room_info(u), load_starter_mail(u)>>

Rows(u) ==
    LET loaders == Loaders(u)
    IN UNION {loaders[k].new \cup loaders[k].any : k \in DOMAIN loaders}

\* What the loaders before the k-th have written.
Before(loaders, k) == UNION {loaders[j].new \cup loaders[j].any : j \in 1..(k - 1)}

\* load_all_starter_data, one transaction over a database with the rows given:
\* it commits if no loader inserts a row that is there or that one before it
\* wrote.
Commits(u, stored) ==
    LET loaders == Loaders(u)
    IN \A k \in DOMAIN loaders : loaders[k].new \cap (stored \cup Before(loaders, k)) = {}

\* Every loader finds what it refers to.
Whole(u) ==
    LET loaders == Loaders(u)
    IN \A k \in DOMAIN loaders : loaders[k].needs \subseteq Before(loaders, k)
=============================================================================
